---- MODULE Spec2Model ----
(***************************************************************************)
(* Model of the DocumentR repository: the retry-with-fallback policy of    *)
(* src/DocumentR.py and the tax / depreciation calculators and tax pages   *)
(* of src/Btax.py.                                                         *)
(*                                                                         *)
(* Representation of numbers.  Python floats are modelled as exact         *)
(* fixed-point numbers; binary rounding is not modelled.                   *)
(*   money          integer number of cents                                *)
(*   rates          integer percent (0.07 is 7, 0.27 is 27)                *)
(*   tax amounts    integer number of 1/10000 rand (cents times percent)   *)
(*   sleep delays   integer number of 1/JitterRes seconds                  *)
(***************************************************************************)
EXTENDS Integers, Sequences, FiniteSets, Bags, TLC

VARIABLES
    \* ---- process_with_retry (src/DocumentR.py) ----
    max_retries,      \* the keyword argument max_retries
    attempt,          \* the loop variable of `for attempt in range(max_retries)`
    pwr_pc,           \* "loop", "returned" or "raised"
    func_calls,       \* outcome of every invocation of the wrapped call, in order
    sleeps,           \* argument of every time.sleep, in order
    fallback_calls,   \* every invocation of the fallback model, in order
    warnings,         \* number of st.warning banners shown
    pwr_return,       \* the value process_with_retry returned
    pwr_raised,       \* the message of the exception process_with_retry raised
    \* ---- calculators of src/Btax.py applied to drawn inputs ----
    taxable_income,   \* argument of the tax calculators, in cents
    asset_row,        \* argument of calculate_depreciation
    sb_result,        \* result of calculate_small_business_tax(taxable_income)
    std_result,       \* result of calculate_business_tax(taxable_income)
    dep_result,       \* result of calculate_depreciation(asset_row)
    \* ---- one logged-in session of the tax application (src/Btax.py) ----
    business_data,    \* the document businesses/<business_id>
    expenses,         \* the sub-collection expenses, a bag of records
    assets,           \* the sub-collection assets, a bag of records
    page_view,        \* what the last execution of main computed and showed
    \* ---- the Streamlit process and its browser session (both applications) ----
    script,           \* the script the process runs: "Btax.py" or "DocumentR.py"
    accounts,         \* the identity service: email -> password of every account
    session_state,    \* st.session_state, a dictionary (key -> value)
    last_run,         \* record of the last execution of main: what it was, what it touched
    \* ---- a second session of the tax application reading the tax figures ----
    reader,           \* position, local variables and result of its page execution
    \* ---- the document application (main of src/DocumentR.py) ----
    users,            \* the collection users: uid -> profile
    documents,        \* the sub-collections documents of all users, a bag of records
    summaries,        \* the sub-collections summaries of all users, a bag of records
    queries,          \* the sub-collections queries of all users, a bag of records
    bucket,           \* the blobs of the storage bucket, a bag
    uploader,         \* the files selected in st.file_uploader, in order
    ingest_log,       \* the steps of the upload loop in the last execution, in order
    \* ---- generate_document_summary / query_documents (src/DocumentR.py) ----
    orch              \* position, local variables and result of the running function

retryVars == <<max_retries, attempt, pwr_pc, func_calls, sleeps, fallback_calls,
               warnings, pwr_return, pwr_raised>>
calcVars  == <<taxable_income, asset_row, sb_result, std_result, dep_result>>
appVars   == <<business_data, expenses, assets, page_view>>
gateVars  == <<script, accounts, session_state, last_run>>
docVars   == <<users, documents, summaries, queries, bucket, uploader, ingest_log>>
vars      == <<retryVars, calcVars, appVars, gateVars, reader, docVars, orch>>

None == "None"

\* Values of the variables of a component that is not run.
IdleRun == [had_user |-> FALSE, interaction |-> "none", email |-> "", password |-> "",
            ops |-> {}, messages |-> {}]
IdleReader == [pc |-> "idle", page |-> "none", business_data |-> <<>>,
               expense_data |-> <<>>, asset_data |-> <<>>, seen |-> <<>>,
               view |-> [page |-> "none", total_revenue |-> 0, total_expenses |-> 0,
                         total_depreciation |-> 0, taxable_income |-> 0, tax_amount |-> 0,
                         tax_rate |-> 0, line |-> 0, deductions |-> <<>>]]
IdleOrch == [pc |-> "idle", fn |-> "none", question |-> "", document_chunks |-> <<>>,
             results |-> <<>>, calls |-> <<>>, value |-> None]

(***************************************************************************)
(* Bounds of the model.                                                    *)
(***************************************************************************)
MaxRetriesBound == 4     \* max_retries is drawn from 1..MaxRetriesBound
JitterRes       == 4     \* random.random() is drawn from {0/4, 1/4, 2/4, 3/4}
IncomeWindow    == 2     \* incomes within this many cents of every bracket edge
MaxYearsOwned   == 5     \* assets are owned for up to about this many years
DayWindow       == 1     \* days within this many days of every anniversary
MaxExpenses     == 2     \* expense records per business
MaxAssets       == 1     \* asset records per business
MaxFiles        == 2     \* files selected in the uploader at a time
MaxDocuments    == 2     \* document records in the record store
MaxHistory      == 1     \* entries of the conversation history
MaxChunks       == 2     \* chunks handed to a summary or a query

(***************************************************************************)
(* process_with_retry                                                      *)
(***************************************************************************)

\* Messages str(e) of the exceptions the wrapped call raises, as character
\* sequences, so that the substring test of the code is a real test.
Messages ==
    { <<"4", "2", "9">>,                       \* "429"
      <<"E", "4", "2", "9", "!">>,             \* 429 inside a longer message
      <<"5", "0", "0">>,                       \* another status code
      <<"4", "2">>,                            \* a proper prefix of 429
      <<"4", "2", "8", "9">> }                 \* the characters, not contiguous

\* Values the wrapped call returns and texts the fallback model generates.
PrimaryValues == {"primary_a", "primary_b"}
FallbackTexts == {"fallback_a", "fallback_b"}

\* Python's `needle in hay` on strings.
Contains(needle, hay) ==
    \E i \in 0..(Len(hay) - Len(needle)) :
        SubSeq(hay, i + 1, i + Len(needle)) = needle

RECURSIVE Pow2(_)
Pow2(n) == IF n = 0 THEN 1 ELSE 2 * Pow2(n - 1)

\* Variant of wait_time: a linear backoff, 2 * attempt instead of 2 ** attempt.
wait_time_Linear(a, jitter) == (2 * a) * JitterRes + jitter

\* wait_time = (2 ** attempt) + random.random(), in 1/JitterRes seconds;
\* jitter is the value of random.random() in the same unit.
wait_time(a, jitter) == Pow2(a) * JitterRes + jitter

\* Variant of except_branch: the test `attempt < max_retries - 1` is missing,
\* so a rate-limited last attempt sleeps and the loop runs out.
except_branch_SleepOnLast(e, a, n) ==
    IF Contains(<<"4", "2", "9">>, e) THEN "sleep"
    ELSE IF a = n - 1 THEN "fallback"
    ELSE "raise"

\* Variant of except_branch: the fallback is taken only for a rate-limited
\* last attempt; every other failure is re-raised.
except_branch_FallbackOn429Only(e, a, n) ==
    IF Contains(<<"4", "2", "9">>, e) /\ a < n - 1 THEN "sleep"
    ELSE IF a = n - 1 /\ Contains(<<"4", "2", "9">>, e) THEN "fallback"
    ELSE "raise"

\* Variant of except_branch: the final `else: raise e` falls back instead.
except_branch_NeverRaise(e, a, n) ==
    IF Contains(<<"4", "2", "9">>, e) /\ a < n - 1 THEN "sleep"
    ELSE "fallback"

\* The branch the except clause takes for exception message e on attempt a.
except_branch(e, a, n) ==
    IF Contains(<<"4", "2", "9">>, e) /\ a < n - 1 THEN "sleep"
    ELSE IF a = n - 1 THEN "fallback"
    ELSE "raise"

\* max_length passed to the fallback model.
fallback_max_length == 100

Returned(v) == [kind |-> "return", value |-> v,    msg |-> <<>>]
Raised(m)   == [kind |-> "raise",  value |-> None, msg |-> m]

InitRetry ==
    /\ max_retries \in 1..MaxRetriesBound
    /\ attempt = 0
    /\ pwr_pc = "loop"
    /\ func_calls = <<>>
    /\ sleeps = <<>>
    /\ fallback_calls = <<>>
    /\ warnings = 0
    /\ pwr_return = None
    /\ pwr_raised = None
    \* the calculators and the tax application are not run
    /\ taxable_income = 0
    /\ asset_row = [purchase_cost |-> 0, expected_life |-> 1, purchase_date |-> 0]
    /\ sb_result = [tax_amount |-> 0, tax_rate |-> 0, line |-> 0]
    /\ std_result = [tax_amount |-> 0, tax_rate |-> 0, line |-> 0]
    /\ dep_result = [den |-> 0, annual_depreciation |-> 0,
                     accumulated_depreciation |-> 0, current_value |-> 0]
    /\ business_data = <<>> /\ expenses = EmptyBag /\ assets = EmptyBag
    /\ page_view = [page |-> "idle", total_revenue |-> 0, total_expenses |-> 0,
                    total_depreciation |-> 0, taxable_income |-> 0, tax_amount |-> 0,
                    tax_rate |-> 0, line |-> 0, deductions |-> <<>>]
    /\ script = "none" /\ accounts = <<>> /\ session_state = <<>> /\ last_run = IdleRun
    /\ reader = IdleReader /\ orch = IdleOrch
    /\ users = <<>> /\ documents = EmptyBag /\ summaries = EmptyBag /\ queries = EmptyBag
    /\ bucket = EmptyBag /\ uploader = <<>> /\ ingest_log = <<>>

\* Variant of FuncReturns: the result of the call is not returned from the
\* loop, which goes on to the next attempt.
FuncReturns_NoReturn(v) ==
    /\ pwr_pc = "loop"
    /\ attempt < max_retries
    /\ func_calls' = Append(func_calls, Returned(v))
    /\ attempt' = attempt + 1
    /\ UNCHANGED <<max_retries, pwr_pc, pwr_return, sleeps, fallback_calls, warnings, pwr_raised>>
    /\ UNCHANGED <<calcVars, appVars, gateVars, reader, docVars, orch>>

\* try: return func(*args, **kwargs)   -- the call returns v
FuncReturns(v) ==
    /\ pwr_pc = "loop"
    /\ attempt < max_retries
    /\ func_calls' = Append(func_calls, Returned(v))
    /\ pwr_return' = v
    /\ pwr_pc' = "returned"
    /\ UNCHANGED <<max_retries, attempt, sleeps, fallback_calls, warnings, pwr_raised>>
    /\ UNCHANGED <<calcVars, appVars, gateVars, reader, docVars, orch>>

\* Variant of FuncRaisesSleep: the attempt is repeated without being counted.
FuncRaisesSleep_SameAttempt(e, jitter) ==
    /\ pwr_pc = "loop"
    /\ attempt < max_retries
    /\ except_branch(e, attempt, max_retries) = "sleep"
    /\ func_calls' = Append(func_calls, Raised(e))
    /\ sleeps' = Append(sleeps, wait_time(attempt, jitter))
    /\ UNCHANGED <<max_retries, attempt, pwr_pc, fallback_calls, warnings, pwr_return,
                   pwr_raised>>
    /\ UNCHANGED <<calcVars, appVars, gateVars, reader, docVars, orch>>

\* the call raises e, rate-limited and not the last attempt: sleep, next attempt
FuncRaisesSleep(e, jitter) ==
    /\ pwr_pc = "loop"
    /\ attempt < max_retries
    /\ except_branch(e, attempt, max_retries) = "sleep"
    /\ func_calls' = Append(func_calls, Raised(e))
    /\ sleeps' = Append(sleeps, wait_time(attempt, jitter))
    /\ attempt' = attempt + 1
    /\ UNCHANGED <<max_retries, pwr_pc, fallback_calls, warnings, pwr_return, pwr_raised>>
    /\ UNCHANGED <<calcVars, appVars, gateVars, reader, docVars, orch>>

\* the call raises e on the last attempt: warn, run the fallback model, return
FuncRaisesFallback(e, text) ==
    /\ pwr_pc = "loop"
    /\ attempt < max_retries
    /\ except_branch(e, attempt, max_retries) = "fallback"
    /\ func_calls' = Append(func_calls, Raised(e))
    /\ warnings' = warnings + 1
    /\ fallback_calls' = Append(fallback_calls,
                                [max_length |-> fallback_max_length, generated_text |-> text])
    /\ pwr_return' = text
    /\ pwr_pc' = "returned"
    /\ UNCHANGED <<max_retries, attempt, sleeps, pwr_raised>>
    /\ UNCHANGED <<calcVars, appVars, gateVars, reader, docVars, orch>>

\* the call raises e, not rate-limited and not the last attempt: raise e
FuncRaisesReraise(e) ==
    /\ pwr_pc = "loop"
    /\ attempt < max_retries
    /\ except_branch(e, attempt, max_retries) = "raise"
    /\ func_calls' = Append(func_calls, Raised(e))
    /\ pwr_raised' = e
    /\ pwr_pc' = "raised"
    /\ UNCHANGED <<max_retries, attempt, sleeps, fallback_calls, warnings, pwr_return>>
    /\ UNCHANGED <<calcVars, appVars, gateVars, reader, docVars, orch>>

NextRetry ==
    \/ \E v \in PrimaryValues : FuncReturns(v)
    \/ \E e \in Messages, jitter \in 0..(JitterRes - 1) : FuncRaisesSleep(e, jitter)
    \/ \E e \in Messages, text \in FallbackTexts : FuncRaisesFallback(e, text)
    \/ \E e \in Messages : FuncRaisesReraise(e)

(***************************************************************************)
(* process_with_retry for any max_retries, zero included, with the end of  *)
(* the for loop: when range(max_retries) is used up the function ends      *)
(* without a return statement and its value is None.                       *)
(***************************************************************************)
InitRetryAny ==
    /\ max_retries \in 0..MaxRetriesBound
    /\ attempt = 0
    /\ pwr_pc = "loop"
    /\ func_calls = <<>>
    /\ sleeps = <<>>
    /\ fallback_calls = <<>>
    /\ warnings = 0
    /\ pwr_return = None
    /\ pwr_raised = None
    \* the calculators and the applications are not run
    /\ taxable_income = 0
    /\ asset_row = [purchase_cost |-> 0, expected_life |-> 1, purchase_date |-> 0]
    /\ sb_result = [tax_amount |-> 0, tax_rate |-> 0, line |-> 0]
    /\ std_result = [tax_amount |-> 0, tax_rate |-> 0, line |-> 0]
    /\ dep_result = [den |-> 0, annual_depreciation |-> 0,
                     accumulated_depreciation |-> 0, current_value |-> 0]
    /\ business_data = <<>> /\ expenses = EmptyBag /\ assets = EmptyBag
    /\ page_view = [page |-> "idle", total_revenue |-> 0, total_expenses |-> 0,
                    total_depreciation |-> 0, taxable_income |-> 0, tax_amount |-> 0,
                    tax_rate |-> 0, line |-> 0, deductions |-> <<>>]
    /\ script = "none" /\ accounts = <<>> /\ session_state = <<>> /\ last_run = IdleRun
    /\ reader = IdleReader /\ orch = IdleOrch
    /\ users = <<>> /\ documents = EmptyBag /\ summaries = EmptyBag /\ queries = EmptyBag
    /\ bucket = EmptyBag /\ uploader = <<>> /\ ingest_log = <<>>

\* range(max_retries) is used up: the function ends, returning None
LoopExhausted ==
    /\ pwr_pc = "loop"
    /\ attempt >= max_retries
    /\ pwr_pc' = "fell_through"
    /\ pwr_return' = None
    /\ UNCHANGED <<max_retries, attempt, func_calls, sleeps, fallback_calls, warnings,
                   pwr_raised>>
    /\ UNCHANGED <<calcVars, appVars, gateVars, reader, docVars, orch>>

NextRetryAny ==
    \/ NextRetry
    \/ LoopExhausted

(***************************************************************************)
(* generate_document_summary and query_documents.  Each runs a loop over   *)
(* the chunks and one combining call; every call is a run of               *)
(* process_with_retry with the default max_retries, modelled by the        *)
(* actions above.  orch.calls logs the calls of process_with_retry in the  *)
(* order they are made, each with the chain, the input and, once the call  *)
(* has returned, its value.                                                *)
(***************************************************************************)
default_max_retries == 3

Chunks == {"c1", "c2", "c3"}

\* lists of up to MaxChunks different chunks
ChunkLists ==
    { cs \in UNION { [1..n -> Chunks] : n \in 0..MaxChunks } :
          \A i, j \in 1..Len(cs) : i # j => cs[i] # cs[j] }

\* exception messages of the model calls: rate-limited or not
OrchMessages == { <<"4", "2", "9">>, <<"5", "0", "0">> }

\* " ".join(strings), as the sequence of the strings and the separators
RECURSIVE Join(_)
Join(strings) ==
    IF strings = <<>> THEN <<>>
    ELSE IF Len(strings) = 1 THEN <<strings[1]>>
    ELSE <<strings[1], " ">> \o Join(Tail(strings))

\* the chain and the input of the call for one chunk
chunk_call(fn, question, chunk) ==
    IF fn = "generate_document_summary"
    THEN [chain |-> "summary_chain", input |-> [doc_chunk |-> chunk], value |-> None]
    ELSE [chain |-> "question_chain",
          input |-> [chunk |-> chunk, question |-> question], value |-> None]

\* the chain and the input of the combining call
combine_call(fn, results) ==
    IF fn = "generate_document_summary"
    THEN [chain |-> "final_summary_chain",
          input |-> [combined_summary |-> Join(results)], value |-> None]
    ELSE [chain |-> "combined_answer_chain",
          input |-> [answers |-> Join(results)], value |-> None]

InitOrch ==
    /\ orch \in { [pc |-> "loop", fn |-> f.fn, question |-> f.question,
                   document_chunks |-> cs, results |-> <<>>, calls |-> <<>>,
                   value |-> None] :
                  f \in { [fn |-> "generate_document_summary", question |-> ""],
                          [fn |-> "query_documents", question |-> "q1"] },
                  cs \in ChunkLists }
    /\ max_retries = default_max_retries
    /\ attempt = 0
    /\ pwr_pc = "idle"
    /\ func_calls = <<>>
    /\ sleeps = <<>>
    /\ fallback_calls = <<>>
    /\ warnings = 0
    /\ pwr_return = None
    /\ pwr_raised = None
    \* the calculators and the applications are not run
    /\ taxable_income = 0
    /\ asset_row = [purchase_cost |-> 0, expected_life |-> 1, purchase_date |-> 0]
    /\ sb_result = [tax_amount |-> 0, tax_rate |-> 0, line |-> 0]
    /\ std_result = [tax_amount |-> 0, tax_rate |-> 0, line |-> 0]
    /\ dep_result = [den |-> 0, annual_depreciation |-> 0,
                     accumulated_depreciation |-> 0, current_value |-> 0]
    /\ business_data = <<>> /\ expenses = EmptyBag /\ assets = EmptyBag
    /\ page_view = [page |-> "idle", total_revenue |-> 0, total_expenses |-> 0,
                    total_depreciation |-> 0, taxable_income |-> 0, tax_amount |-> 0,
                    tax_rate |-> 0, line |-> 0, deductions |-> <<>>]
    /\ script = "none" /\ accounts = <<>> /\ session_state = <<>> /\ last_run = IdleRun
    /\ reader = IdleReader
    /\ users = <<>> /\ documents = EmptyBag /\ summaries = EmptyBag /\ queries = EmptyBag
    /\ bucket = EmptyBag /\ uploader = <<>> /\ ingest_log = <<>>

\* process_with_retry is entered: the loop starts at attempt 0
enter_process_with_retry ==
    /\ pwr_pc = "idle"
    /\ pwr_pc' = "loop"
    /\ max_retries' = default_max_retries
    /\ attempt' = 0
    /\ func_calls' = <<>>
    /\ sleeps' = <<>>
    /\ fallback_calls' = <<>>
    /\ warnings' = 0
    /\ pwr_return' = None
    /\ pwr_raised' = None

\* for chunk in document_chunks: process_with_retry(chain.invoke, {...})
OrchCallChunk ==
    /\ orch.pc = "loop"
    /\ Len(orch.results) < Len(orch.document_chunks)
    /\ enter_process_with_retry
    /\ orch' = [orch EXCEPT
                  !.pc = "calling",
                  !.calls = Append(@, chunk_call(orch.fn, orch.question,
                                       orch.document_chunks[Len(orch.results) + 1]))]
    /\ UNCHANGED <<calcVars, appVars, gateVars, reader, docVars>>

\* Variant of OrchChunkReturned: the result is put in front of the list.
OrchChunkReturned_Prepend ==
    /\ orch.pc = "calling"
    /\ pwr_pc = "returned"
    /\ orch' = [orch EXCEPT !.pc = "loop",
                            !.results = <<pwr_return>> \o @,
                            !.calls[Len(orch.calls)].value = pwr_return]
    /\ pwr_pc' = "idle"
    /\ UNCHANGED <<max_retries, attempt, func_calls, sleeps, fallback_calls, warnings,
                   pwr_return, pwr_raised>>
    /\ UNCHANGED <<calcVars, appVars, gateVars, reader, docVars>>

\* summaries.append(summary) / answers.append(answer)
OrchChunkReturned ==
    /\ orch.pc = "calling"
    /\ pwr_pc = "returned"
    /\ orch' = [orch EXCEPT !.pc = "loop",
                            !.results = Append(@, pwr_return),
                            !.calls[Len(orch.calls)].value = pwr_return]
    /\ pwr_pc' = "idle"
    /\ UNCHANGED <<max_retries, attempt, func_calls, sleeps, fallback_calls, warnings,
                   pwr_return, pwr_raised>>
    /\ UNCHANGED <<calcVars, appVars, gateVars, reader, docVars>>

\* after the loop: process_with_retry(combining chain.invoke, {...: " ".join(...)})
OrchCallCombine ==
    /\ orch.pc = "loop"
    /\ Len(orch.results) = Len(orch.document_chunks)
    /\ enter_process_with_retry
    /\ orch' = [orch EXCEPT !.pc = "combining",
                            !.calls = Append(@, combine_call(orch.fn, orch.results))]
    /\ UNCHANGED <<calcVars, appVars, gateVars, reader, docVars>>

\* return process_with_retry(...)
OrchCombineReturned ==
    /\ orch.pc = "combining"
    /\ pwr_pc = "returned"
    /\ orch' = [orch EXCEPT !.pc = "done",
                            !.value = pwr_return,
                            !.calls[Len(orch.calls)].value = pwr_return]
    /\ pwr_pc' = "idle"
    /\ UNCHANGED <<max_retries, attempt, func_calls, sleeps, fallback_calls, warnings,
                   pwr_return, pwr_raised>>
    /\ UNCHANGED <<calcVars, appVars, gateVars, reader, docVars>>

\* process_with_retry raised: the exception leaves the function
OrchRaised ==
    /\ orch.pc \in {"calling", "combining"}
    /\ pwr_pc = "raised"
    /\ orch' = [orch EXCEPT !.pc = "raised"]
    /\ pwr_pc' = "idle"
    /\ UNCHANGED <<max_retries, attempt, func_calls, sleeps, fallback_calls, warnings,
                   pwr_return, pwr_raised>>
    /\ UNCHANGED <<calcVars, appVars, gateVars, reader, docVars>>

NextOrch ==
    \/ OrchCallChunk
    \/ OrchChunkReturned
    \/ OrchCallCombine
    \/ OrchCombineReturned
    \/ OrchRaised
    \/ \E v \in PrimaryValues : FuncReturns(v)
    \/ \E e \in OrchMessages : FuncRaisesSleep(e, 0)
    \/ \E e \in OrchMessages : FuncRaisesFallback(e, "fallback_a")
    \/ \E e \in OrchMessages : FuncRaisesReraise(e)

(***************************************************************************)
(* Tax calculators (src/Btax.py)                                           *)
(***************************************************************************)
\* float('inf'): the largest integer of the model, above every income
Inf == 2147483647

Min(a, b) == IF a <= b THEN a ELSE b
Max(a, b) == IF a >= b THEN a ELSE b

\* One unit of currency, in cents: the literal 1 of `- min_income + 1`.
OneRand == 100

\* tax_brackets: (min_income, max_income, rate, base_tax); incomes and base
\* tax in cents, rate in percent.
tax_brackets ==
    << [min_income |-> 0,        max_income |-> 9125000,  rate |-> 0,  base_tax |-> 0],
       [min_income |-> 9125100,  max_income |-> 36500000, rate |-> 7,  base_tax |-> 0],
       [min_income |-> 36500100, max_income |-> 55000000, rate |-> 21, base_tax |-> 1916250],
       [min_income |-> 55000100, max_income |-> Inf,      rate |-> 28, base_tax |-> 5803750] >>

\* if min_income <= taxable_income <= max_income
in_bracket(ti, b) == b.min_income <= ti /\ ti <= b.max_income

\* calculate_business_tax: tax_amount in 1/10000 rand, tax_rate in percent.
standard_tax_rate == 27

calculate_business_tax(ti) ==
    [tax_amount |-> ti * standard_tax_rate, tax_rate |-> standard_tax_rate, line |-> 35]

\* Variant of calculate_small_business_tax: without the `+ 1` of the formula.
calculate_small_business_tax_NoPlusOne(ti) ==
    LET hits == { i \in 1..Len(tax_brackets) : in_bracket(ti, tax_brackets[i]) }
    IN  IF hits = {}
        THEN [tax_amount |-> 0, tax_rate |-> 0, line |-> 50]
        ELSE LET i == CHOOSE k \in hits : \A j \in hits : k <= j
                 b == tax_brackets[i]
             IN  [tax_amount |-> b.base_tax * 100 + (ti - b.min_income) * b.rate,
                  tax_rate   |-> b.rate,
                  line       |-> 49]

\* Variant of calculate_small_business_tax: the lower bound of a bracket is
\* exclusive (min_income < taxable_income <= max_income).
calculate_small_business_tax_ExclusiveMin(ti) ==
    LET hits == { i \in 1..Len(tax_brackets) :
                     tax_brackets[i].min_income < ti /\ ti <= tax_brackets[i].max_income }
    IN  IF hits = {}
        THEN [tax_amount |-> 0, tax_rate |-> 0, line |-> 50]
        ELSE LET i == CHOOSE k \in hits : \A j \in hits : k <= j
                 b == tax_brackets[i]
             IN  [tax_amount |-> b.base_tax * 100 + (ti - b.min_income + OneRand) * b.rate,
                  tax_rate   |-> b.rate,
                  line       |-> 49]

\* calculate_small_business_tax: the first bracket of the table that contains
\* the income decides; line is the return statement that was executed.
calculate_small_business_tax(ti) ==
    LET hits == { i \in 1..Len(tax_brackets) : in_bracket(ti, tax_brackets[i]) }
    IN  IF hits = {}
        THEN [tax_amount |-> 0, tax_rate |-> 0, line |-> 50]
        ELSE LET i == CHOOSE k \in hits : \A j \in hits : k <= j
                 b == tax_brackets[i]
             IN  [tax_amount |-> b.base_tax * 100 + (ti - b.min_income + OneRand) * b.rate,
                  tax_rate   |-> b.rate,
                  line       |-> 49]

(***************************************************************************)
(* calculate_depreciation (src/Btax.py)                                    *)
(*                                                                         *)
(* row = [purchase_cost (cents), expected_life (years), purchase_date      *)
(* (day number)]; today is the day number of datetime.now().  The three    *)
(* results are fractions of cents with the common denominator den.         *)
(***************************************************************************)
DaysPerYear == 365

\* Variant of calculate_depreciation: the accumulated depreciation is not
\* capped at the purchase cost.
calculate_depreciation_Uncapped(row, today) ==
    LET days      == today - row.purchase_date
        den       == DaysPerYear * row.expected_life
        annual    == DaysPerYear * row.purchase_cost
        owned     == days * row.purchase_cost
        cost      == den * row.purchase_cost
    IN  [den |-> den,
         annual_depreciation      |-> annual,
         accumulated_depreciation |-> owned,
         current_value            |-> Max(cost - owned, 0)]

\* Variant of calculate_depreciation: neither the cap of the accumulated
\* depreciation at the purchase cost nor the floor of the current value at 0.
calculate_depreciation_NoClamp(row, today) ==
    LET days      == today - row.purchase_date
        den       == DaysPerYear * row.expected_life
        annual    == DaysPerYear * row.purchase_cost
        owned     == days * row.purchase_cost
        cost      == den * row.purchase_cost
    IN  [den |-> den,
         annual_depreciation      |-> annual,
         accumulated_depreciation |-> owned,
         current_value            |-> cost - owned]

calculate_depreciation(row, today) ==
    LET days      == today - row.purchase_date           \* (now - purchase_date).days
        den       == DaysPerYear * row.expected_life
        \* years_owned = days / 365, annual_depreciation = cost / expected_life
        annual    == DaysPerYear * row.purchase_cost       \* cost / life, over den
        owned     == days * row.purchase_cost              \* years_owned * annual, over den
        cost      == den * row.purchase_cost               \* cost, over den
        accum     == Min(owned, cost)
    IN  [den |-> den,
         annual_depreciation      |-> annual,
         accumulated_depreciation |-> accum,
         current_value            |-> Max(cost - accum, 0)]

\* Inputs of the calculators.
BracketEdges == {0, 9125000, 9125100, 36500000, 36500100, 55000000, 55000100, 60000000}

\* Taxable incomes: max(0, ...) of the pages is never negative.
IncomeSamples ==
    { x \in { e + d : e \in BracketEdges, d \in (-IncomeWindow)..IncomeWindow } : x >= 0 }
        \cup { 9125050, 36500050, 55000050 }

\* Purchase costs in cents, expected lives in years (number_input, min_value 1).
CostSamples == {0, 1, 99999}
LifeSamples == {1, 2, 3, 5, 20}

\* Days between the purchase date and today; a purchase date may lie in the
\* future (st.date_input accepts it), which gives a negative number of days.
DaysSamples ==
    { y * DaysPerYear + w : y \in (-1)..MaxYearsOwned, w \in (-DayWindow)..DayWindow }

\* The day number of datetime.now() in the model.
Today == 10 * DaysPerYear

AssetSamples ==
    { [purchase_cost |-> c, expected_life |-> l, purchase_date |-> Today - d] :
          c \in CostSamples, l \in LifeSamples, d \in DaysSamples }
    \cup { [purchase_cost |-> 1000000, expected_life |-> 5, purchase_date |-> Today - d] :
          d \in {0, 2 * DaysPerYear, 5 * DaysPerYear - 1, 5 * DaysPerYear} }

NoTax == [tax_amount |-> 0, tax_rate |-> 0, line |-> 0]            \* not called yet
NoDep == [den |-> 0, annual_depreciation |-> 0,
          accumulated_depreciation |-> 0, current_value |-> 0]     \* not called yet

InitCalc ==
    /\ taxable_income \in IncomeSamples
    /\ asset_row \in AssetSamples
    /\ sb_result = NoTax
    /\ std_result = NoTax
    /\ dep_result = NoDep
    \* process_with_retry and the tax application are not run
    /\ max_retries = 1 /\ attempt = 0 /\ pwr_pc = "idle" /\ func_calls = <<>>
    /\ sleeps = <<>> /\ fallback_calls = <<>> /\ warnings = 0
    /\ pwr_return = None /\ pwr_raised = None
    /\ business_data = <<>> /\ expenses = EmptyBag /\ assets = EmptyBag
    /\ page_view = [page |-> "idle", total_revenue |-> 0, total_expenses |-> 0,
                    total_depreciation |-> 0, taxable_income |-> 0, tax_amount |-> 0,
                    tax_rate |-> 0, line |-> 0, deductions |-> <<>>]
    /\ script = "none" /\ accounts = <<>> /\ session_state = <<>> /\ last_run = IdleRun
    /\ reader = IdleReader /\ orch = IdleOrch
    /\ users = <<>> /\ documents = EmptyBag /\ summaries = EmptyBag /\ queries = EmptyBag
    /\ bucket = EmptyBag /\ uploader = <<>> /\ ingest_log = <<>>

CallSmallBusinessTax ==
    /\ sb_result = NoTax
    /\ sb_result' = calculate_small_business_tax(taxable_income)
    /\ UNCHANGED <<taxable_income, asset_row, std_result, dep_result>>
    /\ UNCHANGED <<retryVars, appVars, gateVars, reader, docVars, orch>>

CallBusinessTax ==
    /\ std_result = NoTax
    /\ std_result' = calculate_business_tax(taxable_income)
    /\ UNCHANGED <<taxable_income, asset_row, sb_result, dep_result>>
    /\ UNCHANGED <<retryVars, appVars, gateVars, reader, docVars, orch>>

CallDepreciation ==
    /\ dep_result = NoDep
    /\ dep_result' = calculate_depreciation(asset_row, Today)
    /\ UNCHANGED <<taxable_income, asset_row, sb_result, std_result>>
    /\ UNCHANGED <<retryVars, appVars, gateVars, reader, docVars, orch>>

NextCalc ==
    \/ CallSmallBusinessTax
    \/ CallBusinessTax
    \/ CallDepreciation

(***************************************************************************)
(* The tax application, one logged-in session (main of src/Btax.py).       *)
(* Every action is one execution of main on one page with one interaction. *)
(***************************************************************************)
SBC == "Small Business Corporation"

BusinessTypes == {SBC, "Medium to Large Corporation", "Sole Proprietorship", "Partnership"}

\* Main categories of the expense form used in the model.
MainCategories == {"Operating Costs", "Research & Development"}

\* Gross revenue and other income typed into the revenue form, in cents.
RevenueForms ==
    { [gross_revenue |-> 0,        other_income |-> 100],
      [gross_revenue |-> 9125050,  other_income |-> 0],
      [gross_revenue |-> 60000000, other_income |-> 100] }

\* Amounts typed into the expense form, in cents.
AmountSamples == {50, 9125000}

\* Main category and amount typed into the expense form.
ExpenseForms ==
    { [main_category |-> "Operating Costs",        amount |-> 50],
      [main_category |-> "Research & Development", amount |-> 9125000],
      [main_category |-> "Research & Development", amount |-> 50] }

\* Purchase cost (cents) and expected life (years) typed into the asset form;
\* every cost is a multiple of its life, so cost / life is a whole number of cents.
AssetFormSamples ==
    { [purchase_cost |-> 5000,    expected_life |-> 2],
      [purchase_cost |-> 9125100, expected_life |-> 3] }

\* dict.get(key, default)
dict_get(d, key, default) == IF key \in DOMAIN d THEN d[key] ELSE default

\* document.set(data, merge=True): the fields of data replace those of doc
set_merge(doc, data) == data @@ doc

\* upload_document_to_firebase: None without a file or when the upload fails
UploadOutcomes == {"no_file", "uploaded", "failed"}
upload_document_to_firebase(outcome) == IF outcome = "uploaded" THEN "public_url" ELSE None

\* collection.stream() yields the documents in no order the code controls;
\* a collection is a bag of records and the sums below do not depend on order.

\* sum(expense['amount'] for expense in expense_data)
RECURSIVE SumAmountsOf(_, _)
SumAmountsOf(S, B) ==
    IF S = {} THEN 0
    ELSE LET x == CHOOSE y \in S : TRUE
         IN  x.amount * B[x] + SumAmountsOf(S \ {x}, B)

SumAmounts(B) == SumAmountsOf(DOMAIN B, B)

\* sum(doc['purchase_cost'] / doc['expected_life'] for doc in asset_data);
\* every stored cost is a multiple of its expected life, so the quotient is exact.
RECURSIVE SumDepreciationOf(_, _)
SumDepreciationOf(S, B) ==
    IF S = {} THEN 0
    ELSE LET x == CHOOSE y \in S : TRUE
         IN  (x.purchase_cost \div x.expected_life) * B[x] + SumDepreciationOf(S \ {x}, B)

SumDepreciation(B) == SumDepreciationOf(DOMAIN B, B)

\* the deductions dictionary of the Tax Summary report: amount per main category
Deductions(B) ==
    [ c \in { x.main_category : x \in DOMAIN B } |->
          LET S == { x \in DOMAIN B : x.main_category = c } IN SumAmountsOf(S, B) ]

\* Variant of tax_for: a profile without a business type is treated as a
\* small business corporation.
tax_for_UnsetIsSmall(data, ti) ==
    IF dict_get(data, "business_type", SBC) = SBC
    THEN calculate_small_business_tax(ti)
    ELSE calculate_business_tax(ti)

\* if business_data.get('business_type') == "Small Business Corporation"
tax_for(data, ti) ==
    IF dict_get(data, "business_type", None) = SBC
    THEN calculate_small_business_tax(ti)
    ELSE calculate_business_tax(ti)

BlankView(page) ==
    [page |-> page, total_revenue |-> 0, total_expenses |-> 0, total_depreciation |-> 0,
     taxable_income |-> 0, tax_amount |-> 0, tax_rate |-> 0, line |-> 0, deductions |-> <<>>]

\* The figures of the page "Tax Calculator", computed from the profile, the
\* expense records and the asset records the page has read.
tax_calculator(data, expense_data, asset_data) ==
    LET gross_revenue      == dict_get(data, "gross_revenue", 0)
        other_income       == dict_get(data, "other_income", 0)
        total_revenue      == gross_revenue + other_income
        total_expenses     == SumAmounts(expense_data)
        total_depreciation == SumDepreciation(asset_data)
        total_deductions   == total_expenses + total_depreciation
        ti                 == Max(0, total_revenue - total_deductions)
        t                  == tax_for(data, ti)
    IN  [page |-> "Tax Calculator",
         total_revenue |-> total_revenue,
         total_expenses |-> total_expenses,
         total_depreciation |-> total_depreciation,
         taxable_income |-> ti,
         tax_amount |-> t.tax_amount, tax_rate |-> t.tax_rate, line |-> t.line,
         deductions |-> <<>>]

\* Variant of tax_summary: the taxable income is not floored at zero.
tax_summary_NoFloor(data, expense_data, asset_data) ==
    LET total_revenue      == dict_get(data, "gross_revenue", 0)
                                  + dict_get(data, "other_income", 0)
        total_expenses     == SumAmounts(expense_data)
        total_depreciation == SumDepreciation(asset_data)
        ti                 == total_revenue - total_expenses - total_depreciation
        t                  == tax_for(data, ti)
    IN  [page |-> "Tax Summary",
         total_revenue |-> total_revenue,
         total_expenses |-> total_expenses,
         total_depreciation |-> total_depreciation,
         taxable_income |-> ti,
         tax_amount |-> t.tax_amount, tax_rate |-> t.tax_rate, line |-> t.line,
         deductions |-> Deductions(expense_data)]

\* The figures of the report "Tax Summary" (the dictionary tax_summary),
\* computed from the profile, the expense records and the asset records read.
tax_summary(data, expense_data, asset_data) ==
    LET total_revenue      == dict_get(data, "gross_revenue", 0)
                                  + dict_get(data, "other_income", 0)
        total_expenses     == SumAmounts(expense_data)
        total_depreciation == SumDepreciation(asset_data)
        ti                 == Max(0, total_revenue - total_expenses - total_depreciation)
        t                  == tax_for(data, ti)
    IN  [page |-> "Tax Summary",
         total_revenue |-> total_revenue,
         total_expenses |-> total_expenses,
         total_depreciation |-> total_depreciation,
         taxable_income |-> ti,
         tax_amount |-> t.tax_amount, tax_rate |-> t.tax_rate, line |-> t.line,
         deductions |-> Deductions(expense_data)]

(***************************************************************************)
(* The authentication gate of main, the same code in both applications:    *)
(* without the key 'user' in st.session_state only the login and sign-up   *)
(* forms run and main returns.                                             *)
(***************************************************************************)
\* Emails and passwords typed into the forms.  OwnerEmail is the account of
\* the business whose records the model follows; nobody signs up as Stranger.
OwnerEmail == "owner@example.com"
Stranger   == "stranger@example.com"
Passwords  == {"secret", "guess"}

\* user.uid: the identifier the identity service gave the account of an email
uid_of(email) == <<"uid", email>>

\* 'user' in st.session_state
logged_in == "user" \in DOMAIN session_state

\* Variant of dict_del: the key is kept.
dict_del_Keep(d, key) == d

\* del st.session_state[key]
dict_del(d, key) == [k \in DOMAIN d \ {key} |-> d[k]]

\* The record of one execution of main: whether the session held a user when
\* it began, the interaction that triggered it, the credentials typed (login
\* and sign-up only), the operations on external services and the banners.
Run(had_user, interaction, email, password, ops, messages) ==
    [had_user |-> had_user, interaction |-> interaction, email |-> email,
     password |-> password, ops |-> ops, messages |-> messages]

\* The body of `if st.button("Login")`: auth.get_user_by_email(email) returns
\* the account of the email or raises; the password typed is not used.
login(email, password) ==
    IF email \in DOMAIN accounts
    THEN [state    |-> [user |-> [localId |-> uid_of(email), email |-> email]] @@ session_state,
          messages |-> {"Logged in successfully!"}]
    ELSE [state |-> session_state, messages |-> {"Login failed"}]

(***************************************************************************)
(* The tax application (main of src/Btax.py).  Every action is one         *)
(* execution of main with one interaction.                                 *)
(***************************************************************************)
InitApp ==
    /\ script = "Btax.py"
    /\ accounts = <<>>
    /\ session_state = <<>>
    /\ last_run = Run(FALSE, "open", "", "", {}, {})
    /\ business_data = <<>>
    /\ expenses = EmptyBag
    /\ assets = EmptyBag
    /\ page_view = BlankView("Login")
    \* no second session, and the document application is not run
    /\ reader = IdleReader /\ orch = IdleOrch
    /\ users = <<>> /\ documents = EmptyBag /\ summaries = EmptyBag /\ queries = EmptyBag
    /\ bucket = EmptyBag /\ uploader = <<>> /\ ingest_log = <<>>
    \* process_with_retry and the calculators are not run
    /\ max_retries = 1 /\ attempt = 0 /\ pwr_pc = "idle" /\ func_calls = <<>>
    /\ sleeps = <<>> /\ fallback_calls = <<>> /\ warnings = 0
    /\ pwr_return = None /\ pwr_raised = None
    /\ taxable_income = 0
    /\ asset_row = [purchase_cost |-> 0, expected_life |-> 1, purchase_date |-> 0]
    /\ sb_result = [tax_amount |-> 0, tax_rate |-> 0, line |-> 0]
    /\ std_result = [tax_amount |-> 0, tax_rate |-> 0, line |-> 0]
    /\ dep_result = [den |-> 0, annual_depreciation |-> 0,
                     accumulated_depreciation |-> 0, current_value |-> 0]

\* tab "Login", button pressed
BtaxLogin(email, password) ==
    /\ script = "Btax.py"
    /\ ~logged_in
    /\ session_state' = login(email, password).state
    /\ last_run' = Run(FALSE, "Login", email, password, {"auth.get_user_by_email"},
                       login(email, password).messages)
    /\ page_view' = BlankView("Login")
    /\ UNCHANGED <<script, accounts, business_data, expenses, assets>>
    /\ UNCHANGED <<retryVars, calcVars, reader, docVars, orch>>

\* tab "Sign Up", button pressed: auth.create_user raises for an email that
\* has an account; the profile write that follows succeeds (store_ok) or raises.
BtaxSignUp(email, password, business_type, store_ok) ==
    /\ script = "Btax.py"
    /\ ~logged_in
    /\ IF email \in DOMAIN accounts
       THEN /\ last_run' = Run(FALSE, "Sign Up", email, password, {"auth.create_user"},
                               {"Sign up failed"})
            /\ UNCHANGED <<accounts, business_data>>
       ELSE /\ accounts' = (email :> password) @@ accounts
            /\ IF store_ok
               THEN /\ business_data' = [business_type |-> business_type]
                    /\ last_run' = Run(FALSE, "Sign Up", email, password,
                                       {"auth.create_user", "businesses.set"},
                                       {"Account created! Please login."})
               ELSE /\ UNCHANGED business_data
                    /\ last_run' = Run(FALSE, "Sign Up", email, password,
                                       {"auth.create_user"}, {"Sign up failed"})
    /\ page_view' = BlankView("Sign Up")
    /\ UNCHANGED <<script, session_state, expenses, assets>>
    /\ UNCHANGED <<retryVars, calcVars, reader, docVars, orch>>

\* sidebar button "Logout"
BtaxLogout ==
    /\ script = "Btax.py"
    /\ logged_in
    /\ session_state' = dict_del(session_state, "user")
    /\ last_run' = Run(TRUE, "Logout", "", "", {}, {})
    /\ page_view' = BlankView("Logout")
    /\ UNCHANGED <<script, accounts, business_data, expenses, assets>>
    /\ UNCHANGED <<retryVars, calcVars, reader, docVars, orch>>

\* page "Income & Revenue", form submitted
SaveRevenueDetails(gross_revenue, other_income) ==
    /\ script = "Btax.py"
    /\ logged_in
    /\ business_data' = set_merge(business_data,
                                  [gross_revenue |-> gross_revenue, other_income |-> other_income])
    /\ page_view' = BlankView("Income & Revenue")
    /\ last_run' = Run(TRUE, "Save Revenue Details", "", "",
                       {"businesses.get", "businesses.set"},
                       {"Revenue details updated successfully!"})
    /\ UNCHANGED <<expenses, assets>>
    /\ UNCHANGED <<script, accounts, session_state>>
    /\ UNCHANGED <<retryVars, calcVars, reader, docVars, orch>>

\* operations and banners of upload_document_to_firebase
upload_ops(outcome) == IF outcome = "no_file" THEN {} ELSE {"storage.upload"}
upload_messages(outcome) == IF outcome = "failed" THEN {"Error uploading document"} ELSE {}

\* Variant of AddExpense: a failed upload ends the handler, no record is added.
AddExpense_AbortOnFailedUpload(main_category, amount, upload) ==
    /\ script = "Btax.py"
    /\ logged_in
    /\ BagCardinality(expenses) < MaxExpenses
    /\ LET document_url == upload_document_to_firebase(upload)
       IN  expenses' = IF upload = "failed" THEN expenses
                       ELSE expenses (+) SetToBag({[main_category |-> main_category,
                                                    amount |-> amount,
                                                    document_url |-> document_url]})
    /\ page_view' = BlankView("Expenses & Deductions")
    /\ last_run' = Run(TRUE, "Add Expense", "", "",
                       {"businesses.get"} \cup upload_ops(upload),
                       upload_messages(upload))
    /\ UNCHANGED <<business_data, assets>>
    /\ UNCHANGED <<script, accounts, session_state>>
    /\ UNCHANGED <<retryVars, calcVars, reader, docVars, orch>>

\* page "Expenses & Deductions", form submitted
AddExpense(main_category, amount, upload) ==
    /\ script = "Btax.py"
    /\ logged_in
    /\ BagCardinality(expenses) < MaxExpenses
    /\ LET document_url == upload_document_to_firebase(upload)
       IN  expenses' = expenses (+) SetToBag({[main_category |-> main_category,
                                               amount |-> amount,
                                               document_url |-> document_url]})
    /\ page_view' = BlankView("Expenses & Deductions")
    /\ last_run' = Run(TRUE, "Add Expense", "", "",
                       {"businesses.get", "expenses.add"} \cup upload_ops(upload),
                       {"Expense recorded successfully!"} \cup upload_messages(upload))
    /\ UNCHANGED <<business_data, assets>>
    /\ UNCHANGED <<script, accounts, session_state>>
    /\ UNCHANGED <<retryVars, calcVars, reader, docVars, orch>>

\* page "Asset Management", form submitted
AddAsset(purchase_cost, expected_life, upload) ==
    /\ script = "Btax.py"
    /\ logged_in
    /\ BagCardinality(assets) < MaxAssets
    /\ LET document_url == upload_document_to_firebase(upload)
       IN  assets' = assets (+) SetToBag({[purchase_cost |-> purchase_cost,
                                           expected_life |-> expected_life,
                                           document_url |-> document_url]})
    /\ page_view' = BlankView("Asset Management")
    /\ last_run' = Run(TRUE, "Add Asset", "", "",
                       {"businesses.get", "assets.add", "assets.stream"} \cup upload_ops(upload),
                       {"Asset recorded successfully!"} \cup upload_messages(upload))
    /\ UNCHANGED <<business_data, expenses>>
    /\ UNCHANGED <<script, accounts, session_state>>
    /\ UNCHANGED <<retryVars, calcVars, reader, docVars, orch>>

\* page "Tax Calculator"
TaxCalculatorPage ==
    /\ script = "Btax.py"
    /\ logged_in
    /\ page_view' = tax_calculator(business_data, expenses, assets)
    /\ last_run' = Run(TRUE, "Tax Calculator", "", "",
                       {"businesses.get", "expenses.stream", "assets.stream"}, {})
    /\ UNCHANGED <<business_data, expenses, assets>>
    /\ UNCHANGED <<script, accounts, session_state>>
    /\ UNCHANGED <<retryVars, calcVars, reader, docVars, orch>>

\* page "Reports", report type "Tax Summary"
TaxSummaryReport ==
    /\ script = "Btax.py"
    /\ logged_in
    /\ page_view' = tax_summary(business_data, expenses, assets)
    /\ last_run' = Run(TRUE, "Tax Summary", "", "",
                       {"businesses.get", "expenses.stream", "assets.stream"}, {})
    /\ UNCHANGED <<business_data, expenses, assets>>
    /\ UNCHANGED <<script, accounts, session_state>>
    /\ UNCHANGED <<retryVars, calcVars, reader, docVars, orch>>

NextApp ==
    \/ \E p \in Passwords : BtaxLogin(OwnerEmail, p)
    \/ BtaxLogin(Stranger, "guess")
    \/ \E t \in BusinessTypes, ok \in BOOLEAN : BtaxSignUp(OwnerEmail, "secret", t, ok)
    \/ BtaxLogout
    \/ \E r \in RevenueForms : SaveRevenueDetails(r.gross_revenue, r.other_income)
    \/ \E x \in ExpenseForms, u \in UploadOutcomes : AddExpense(x.main_category, x.amount, u)
    \/ \E a \in AssetFormSamples, u \in UploadOutcomes :
           AddAsset(a.purchase_cost, a.expected_life, u)
    \/ TaxCalculatorPage
    \/ TaxSummaryReport

(***************************************************************************)
(* A second session of the same business that opens the Tax Calculator     *)
(* page or the Tax Summary report while the first session goes on writing. *)
(* The page reads the profile, the expenses and the assets with three      *)
(* separate requests; each request is one step.  reader.seen keeps the     *)
(* records as they were at each of the three reads.                        *)
(***************************************************************************)
store == [business_data |-> business_data, expenses |-> expenses, assets |-> assets]

InitReader ==
    /\ script = "Btax.py"
    /\ accounts = (OwnerEmail :> "secret")
    /\ session_state = [user |-> [localId |-> uid_of(OwnerEmail), email |-> OwnerEmail]]
    /\ last_run = Run(FALSE, "Login", OwnerEmail, "secret", {"auth.get_user_by_email"},
                      {"Logged in successfully!"})
    /\ business_data \in { [business_type |-> t] : t \in {SBC, "Sole Proprietorship"} }
    /\ expenses = EmptyBag
    /\ assets = EmptyBag
    /\ page_view = BlankView("Login")
    /\ reader = IdleReader
    \* the document application, the calculators and process_with_retry are not run
    /\ orch = IdleOrch
    /\ users = <<>> /\ documents = EmptyBag /\ summaries = EmptyBag /\ queries = EmptyBag
    /\ bucket = EmptyBag /\ uploader = <<>> /\ ingest_log = <<>>
    /\ max_retries = 1 /\ attempt = 0 /\ pwr_pc = "idle" /\ func_calls = <<>>
    /\ sleeps = <<>> /\ fallback_calls = <<>> /\ warnings = 0
    /\ pwr_return = None /\ pwr_raised = None
    /\ taxable_income = 0
    /\ asset_row = [purchase_cost |-> 0, expected_life |-> 1, purchase_date |-> 0]
    /\ sb_result = [tax_amount |-> 0, tax_rate |-> 0, line |-> 0]
    /\ std_result = [tax_amount |-> 0, tax_rate |-> 0, line |-> 0]
    /\ dep_result = [den |-> 0, annual_depreciation |-> 0,
                     accumulated_depreciation |-> 0, current_value |-> 0]

\* business_data = business_ref.get().to_dict()
ReaderReadProfile(page) ==
    /\ reader.pc = "idle"
    /\ reader' = [reader EXCEPT !.pc = "profile_read", !.page = page,
                                !.business_data = business_data,
                                !.seen = <<store>>]
    /\ UNCHANGED <<retryVars, calcVars, appVars, gateVars, docVars, orch>>

\* Variant of ReaderReadExpenses: the expenses are those of the moment the
\* profile was read, as if the page worked on a snapshot.
ReaderReadExpenses_Snapshot ==
    /\ reader.pc = "profile_read"
    /\ reader' = [reader EXCEPT !.pc = "expenses_read",
                                !.expense_data = reader.seen[1].expenses,
                                !.seen = Append(@, store)]
    /\ UNCHANGED <<retryVars, calcVars, appVars, gateVars, docVars, orch>>

\* the stream of business_ref.collection('expenses')
ReaderReadExpenses ==
    /\ reader.pc = "profile_read"
    /\ reader' = [reader EXCEPT !.pc = "expenses_read",
                                !.expense_data = expenses,
                                !.seen = Append(@, store)]
    /\ UNCHANGED <<retryVars, calcVars, appVars, gateVars, docVars, orch>>

\* the stream of business_ref.collection('assets'), then the figures
ReaderReadAssets ==
    /\ reader.pc = "expenses_read"
    /\ reader' = [reader EXCEPT
                     !.pc = "done",
                     !.asset_data = assets,
                     !.seen = Append(@, store),
                     !.view = IF reader.page = "Tax Calculator"
                              THEN tax_calculator(reader.business_data, reader.expense_data, assets)
                              ELSE tax_summary(reader.business_data, reader.expense_data, assets)]
    /\ UNCHANGED <<retryVars, calcVars, appVars, gateVars, docVars, orch>>

\* the first session writes (forms without a supporting document) while the
\* second session reads
NextReader ==
    \/ \E r \in {f \in RevenueForms : f.other_income = 0} :
           SaveRevenueDetails(r.gross_revenue, r.other_income)
    \/ \E x \in {f \in ExpenseForms : f.amount > 50} :
           AddExpense(x.main_category, x.amount, "no_file")
    \/ \E a \in {f \in AssetFormSamples : f.expected_life = 3} :
           AddAsset(a.purchase_cost, a.expected_life, "no_file")
    \/ \E page \in {"Tax Calculator", "Tax Summary"} : ReaderReadProfile(page)
    \/ ReaderReadExpenses
    \/ ReaderReadAssets

(***************************************************************************)
(* The document application (main of src/DocumentR.py).  Every action is   *)
(* one execution of main with one interaction.  The input method is        *)
(* "Upload Files" throughout; the branch "Paste Text" is not modelled.     *)
(***************************************************************************)
Alice == "alice@example.com"
Bob   == "bob@example.com"

\* Files offered to the uploader: name, MIME type and content.
Files ==
    { [name |-> "a.pdf", type |-> "application/pdf", content |-> "text_a"],
      [name |-> "b.txt", type |-> "text/plain",      content |-> "text_b"] }

\* Selections of the uploader: sequences of distinct files, in the order chosen.
Selections ==
    { sel \in UNION { [1..n -> Files] : n \in 0..MaxFiles } :
          \A i \in DOMAIN sel, j \in DOMAIN sel : i # j => sel[i] # sel[j] }

\* extract_text_from_file: the text the reader of the file's type finds in it
extract_text_from_file(file) == file.content

\* chunk_text: RecursiveCharacterTextSplitter is a library; the model fixes the
\* chunks it yields for each text (two overlapping chunks and a single chunk).
chunk_text(text) ==
    CASE text = "text_a" -> <<"a#1", "a#2">>
      [] text = "text_b" -> <<"b#1">>
      [] OTHER           -> <<>>

\* generate_thumbnail: PNG bytes of the image or of a placeholder
generate_thumbnail(file) == <<"png", file.name>>

\* The names bound at module level in src/DocumentR.py by its imports and
\* definitions.  `datetime` is not among them.
module_names ==
    {"st", "firebase_admin", "credentials", "firestore", "auth", "storage", "PyPDF2",
     "docx", "io", "BytesIO", "Image", "ImageDraw", "pytesseract", "ChatPromptTemplate",
     "ChatGoogleGenerativeAI", "StrOutputParser", "RunnablePassthrough",
     "ConversationBufferMemory", "base64", "RecursiveCharacterTextSplitter", "time",
     "random", "pipeline", "json"}

\* upload_file_to_firebase: the try block evaluates datetime.now() to build
\* the blob name before it uploads; an exception in the block (the NameError
\* of an unbound name; a failure of the storage service would be caught the
\* same way) is shown with st.error and the function returns None.
upload_file_to_firebase(user_id, file) ==
    IF "datetime" \in module_names
    THEN [file_url |-> "public_url",
          blobs    |-> SetToBag({ [owner |-> user_id, name |-> file.name] }),
          outcome  |-> "ok"]
    ELSE [file_url |-> None, blobs |-> EmptyBag, outcome |-> "error"]

\* The steps of the upload loop for one file, in the order of the code.
Steps == << "upload_file_to_firebase", "extract_text_from_file", "chunk_text",
            "generate_thumbnail", "documents.add", "session_state" >>

StepIndex(step) == CHOOSE i \in 1..Len(Steps) : Steps[i] = step

\* A failure injected into one execution of the loop: the position of the
\* file whose step raises, or position 0 for an execution without a failure.
\* upload_file_to_firebase catches its own exceptions and the updates of
\* st.session_state cannot fail; of the other steps the first and the last
\* are made to raise.
NoFail == [at |-> 0, step |-> "none"]
Fails(files) ==
    {NoFail} \cup { [at |-> k, step |-> st] :
                        k \in 1..Len(files), st \in {"extract_text_from_file", "documents.add"} }

RECURSIVE Flatten(_)
Flatten(ss) == IF ss = <<>> THEN <<>> ELSE Head(ss) \o Flatten(Tail(ss))

\* the steps logged for the file at position i
file_log(files, i, fail, uid) ==
    LET last == IF fail.at = i THEN StepIndex(fail.step) ELSE Len(Steps)
    IN  [ j \in 1..last |->
            [pos |-> i, file |-> files[i].name, step |-> Steps[j],
             outcome |-> IF fail.at = i /\ j = last THEN "raised"
                         ELSE IF j = 1
                              THEN upload_file_to_firebase(uid, files[i]).outcome
                              ELSE "ok"] ]

\* Variant of ingest: after a failure the loop goes on with the next file.
ingest_SkipFailed(files, fail, uid) ==
    LET done == { i \in 1..Len(files) : i # fail.at }
        ord  == [ n \in 1..Cardinality(done) |->
                     CHOOSE i \in done : Cardinality({ j \in done : j < i }) = n - 1 ]
    IN  [raised |-> fail.at # 0,
         uploaded_documents |->
             [ n \in 1..Len(ord) |->
                 [file |-> files[ord[n]],
                  text_chunks |-> chunk_text(extract_text_from_file(files[ord[n]])),
                  thumbnail |-> generate_thumbnail(files[ord[n]]),
                  by |-> uid] ],
         combined_document_text |->
             Flatten([ n \in 1..Len(ord) |->
                          chunk_text(extract_text_from_file(files[ord[n]])) ]),
         records |->
             BagUnion({ SetToBag({ [owner |-> uid,
                                    filename |-> files[i].name,
                                    file_url |-> upload_file_to_firebase(uid, files[i]).file_url,
                                    type |-> files[i].type,
                                    text_content |-> extract_text_from_file(files[i]),
                                    chunk_count |->
                                        Len(chunk_text(extract_text_from_file(files[i])))] })
                        : i \in done }),
         blobs |-> BagUnion({ upload_file_to_firebase(uid, files[i]).blobs
                                : i \in 1..Len(files) }),
         log |-> Flatten([ i \in 1..Len(files) |->
                              file_log(files, i, fail, uid) ])]

\* The loop `for file in uploaded_files` of main, entered with the session
\* lists emptied: the files before the failing one are processed and the
\* exception leaves the loop and main.  by is the user logged in (bookkeeping
\* of the model, not a field of the code).
ingest(files, fail, uid) ==
    LET m     == IF fail.at = 0 THEN Len(files) ELSE fail.at - 1   \* files processed
        tried == IF fail.at = 0 THEN Len(files) ELSE fail.at       \* files attempted
    IN  [raised |-> fail.at # 0,
         uploaded_documents |->
             [ i \in 1..m |->
                 [file |-> files[i],
                  text_chunks |-> chunk_text(extract_text_from_file(files[i])),
                  thumbnail |-> generate_thumbnail(files[i]),
                  by |-> uid] ],
         combined_document_text |->
             Flatten([ i \in 1..m |-> chunk_text(extract_text_from_file(files[i])) ]),
         records |->
             BagUnion({ SetToBag({ [owner |-> uid,
                                    filename |-> files[i].name,
                                    file_url |-> upload_file_to_firebase(uid, files[i]).file_url,
                                    type |-> files[i].type,
                                    text_content |-> extract_text_from_file(files[i]),
                                    chunk_count |->
                                        Len(chunk_text(extract_text_from_file(files[i])))] })
                        : i \in 1..m }),
         blobs |-> BagUnion({ upload_file_to_firebase(uid, files[i]).blobs
                                : i \in 1..tried }),
         log |-> Flatten([ i \in 1..tried |-> file_log(files, i, fail, uid) ])]

\* for key in [...]: if key not in st.session_state: st.session_state[key] = ...
init_keys(ss) ==
    [ k \in DOMAIN ss \cup {"memory", "history", "uploaded_documents", "combined_document_text"}
        |-> IF k \in DOMAIN ss THEN ss[k]
            ELSE IF k = "memory" THEN "ConversationBufferMemory"
            ELSE <<>> ]

\* The part of main from the initialisation of the session keys to the end of
\* the upload section, with `files` selected in the uploader.
upload_section(ss, files, fail) ==
    LET ss0 == init_keys(ss)
        r   == ingest(files, fail, ss0["user"].localId)
    IN  IF files = <<>>
        THEN [state |-> ss0, raised |-> FALSE, records |-> EmptyBag, blobs |-> EmptyBag,
              log |-> <<>>, ops |-> {"users.get"}, messages |-> {}]
        ELSE [state |-> [ss0 EXCEPT !["uploaded_documents"] = r.uploaded_documents,
                                    !["combined_document_text"] = r.combined_document_text],
              raised |-> r.raised,
              records |-> r.records,
              blobs |-> r.blobs,
              log |-> r.log,
              ops |-> {"users.get", "storage.upload"}
                          \cup (IF r.records = EmptyBag THEN {} ELSE {"documents.add"}),
              messages |-> (IF \E i \in 1..Len(r.log) : r.log[i].outcome = "error"
                            THEN {"Error uploading file"} ELSE {})
                           \cup (IF r.raised THEN {"Uncaught exception"}
                                 ELSE {"documents processed!"})]

\* Results of generate_document_summary / query_documents: the text is
\* returned or an exception of a model call leaves the function.  The write
\* of the record that follows is taken to succeed.
AnalysisOutcomes == {"returned", "model_raised"}

InitDoc ==
    /\ script = "DocumentR.py"
    /\ accounts = <<>>
    /\ users = <<>>
    /\ session_state = <<>>
    /\ last_run = Run(FALSE, "open", "", "", {}, {})
    /\ documents = EmptyBag /\ summaries = EmptyBag /\ queries = EmptyBag
    /\ bucket = EmptyBag
    /\ uploader = <<>>
    /\ ingest_log = <<>>
    \* the tax application, the calculators, process_with_retry and the
    \* summary / query functions are not run
    /\ reader = IdleReader /\ orch = IdleOrch
    /\ business_data = <<>> /\ expenses = EmptyBag /\ assets = EmptyBag
    /\ page_view = BlankView("Login")
    /\ max_retries = 1 /\ attempt = 0 /\ pwr_pc = "idle" /\ func_calls = <<>>
    /\ sleeps = <<>> /\ fallback_calls = <<>> /\ warnings = 0
    /\ pwr_return = None /\ pwr_raised = None
    /\ taxable_income = 0
    /\ asset_row = [purchase_cost |-> 0, expected_life |-> 1, purchase_date |-> 0]
    /\ sb_result = [tax_amount |-> 0, tax_rate |-> 0, line |-> 0]
    /\ std_result = [tax_amount |-> 0, tax_rate |-> 0, line |-> 0]
    /\ dep_result = [den |-> 0, annual_depreciation |-> 0,
                     accumulated_depreciation |-> 0, current_value |-> 0]

\* tab "Login", button pressed
DocLogin(email, password) ==
    /\ script = "DocumentR.py"
    /\ ~logged_in
    /\ session_state' = login(email, password).state
    /\ last_run' = Run(FALSE, "Login", email, password, {"auth.get_user_by_email"},
                       login(email, password).messages)
    /\ ingest_log' = <<>>
    /\ UNCHANGED <<script, accounts, users, documents, summaries, queries, bucket, uploader>>
    /\ UNCHANGED <<retryVars, calcVars, appVars, reader, orch>>

\* tab "Sign Up", button pressed; the profile write is taken to succeed
DocSignUp(email, password, organization) ==
    /\ script = "DocumentR.py"
    /\ ~logged_in
    /\ IF email \in DOMAIN accounts
       THEN /\ last_run' = Run(FALSE, "Sign Up", email, password, {"auth.create_user"},
                               {"Sign up failed"})
            /\ UNCHANGED <<accounts, users>>
       ELSE /\ accounts' = (email :> password) @@ accounts
            /\ users' = (uid_of(email) :> [email |-> email, organization |-> organization])
                            @@ users
            /\ last_run' = Run(FALSE, "Sign Up", email, password,
                               {"auth.create_user", "users.set"},
                               {"Account created! Please login."})
    /\ ingest_log' = <<>>
    /\ UNCHANGED <<script, session_state, documents, summaries, queries, bucket, uploader>>
    /\ UNCHANGED <<retryVars, calcVars, appVars, reader, orch>>

\* sidebar button "Logout": the key 'user' is deleted and main runs again,
\* showing the login forms.  Streamlit drops the value of a widget that an
\* execution does not render, so the uploader is empty afterwards.
DocLogout ==
    /\ script = "DocumentR.py"
    /\ logged_in
    /\ session_state' = dict_del(init_keys(session_state), "user")
    /\ uploader' = <<>>
    /\ last_run' = Run(TRUE, "Logout", "", "", {"users.get"}, {})
    /\ ingest_log' = <<>>
    /\ UNCHANGED <<script, accounts, users, documents, summaries, queries, bucket>>
    /\ UNCHANGED <<retryVars, calcVars, appVars, reader, orch>>

\* The selection of the uploader changes (or main runs again after a login):
\* main executes with the files selected.
DocSelectFiles(files, fail) ==
    /\ script = "DocumentR.py"
    /\ logged_in
    /\ \E u \in {upload_section(session_state, files, fail)} :
           /\ BagCardinality(documents (+) u.records) <= MaxDocuments
           /\ session_state' = u.state
           /\ documents' = documents (+) u.records
           /\ bucket' = bucket (+) u.blobs
           /\ ingest_log' = u.log
           /\ last_run' = Run(TRUE, "Select Files", "", "", u.ops, u.messages)
    /\ uploader' = files
    /\ UNCHANGED <<script, accounts, users, summaries, queries>>
    /\ UNCHANGED <<retryVars, calcVars, appVars, reader, orch>>

\* button "Generate Summary": main executes the upload section with the files
\* still selected, then the handler of the button.
DocGenerateSummary(fail, outcome) ==
    /\ script = "DocumentR.py"
    /\ logged_in
    /\ dict_get(session_state, "uploaded_documents", <<>>) # <<>>     \* the button is shown
    /\ Len(dict_get(session_state, "history", <<>>)) < MaxHistory
    /\ \E u \in {upload_section(session_state, uploader, fail)} :
       LET uid == u.state["user"].localId
           run == ~u.raised /\ u.state["uploaded_documents"] # <<>>
           entry == [kind |-> "Summary", question |-> "", text |-> "summary_text", by |-> uid]
       IN  /\ BagCardinality(documents (+) u.records) <= MaxDocuments
           /\ documents' = documents (+) u.records
           /\ bucket' = bucket (+) u.blobs
           /\ ingest_log' = u.log
           /\ session_state' =
                  IF run /\ outcome # "model_raised"
                  THEN [u.state EXCEPT !["history"] = Append(@, entry)]
                  ELSE u.state
           /\ summaries' =
                  IF run /\ outcome = "returned"
                  THEN summaries (+) SetToBag({[owner |-> uid, summary |-> "summary_text"]})
                  ELSE summaries
           /\ last_run' = Run(TRUE, "Generate Summary", "", "",
                              u.ops \cup (IF run THEN {"model"} ELSE {})
                                    \cup (IF run /\ outcome # "model_raised"
                                          THEN {"summaries.add"} ELSE {}),
                              u.messages \cup (IF run /\ outcome = "model_raised"
                                               THEN {"Error"} ELSE {}))
    /\ UNCHANGED <<script, accounts, users, queries, uploader>>
    /\ UNCHANGED <<retryVars, calcVars, appVars, reader, orch>>

\* form "question_form" submitted with a question: main executes the upload
\* section with the files still selected, then the handler of the form.
DocSearch(question, fail, outcome) ==
    /\ script = "DocumentR.py"
    /\ logged_in
    /\ dict_get(session_state, "uploaded_documents", <<>>) # <<>>     \* the form is shown
    /\ Len(dict_get(session_state, "history", <<>>)) < MaxHistory
    /\ \E u \in {upload_section(session_state, uploader, fail)} :
       LET uid == u.state["user"].localId
           run == ~u.raised /\ u.state["uploaded_documents"] # <<>>
           entry == [kind |-> "Q/A", question |-> question, text |-> "answer_text", by |-> uid]
       IN  /\ BagCardinality(documents (+) u.records) <= MaxDocuments
           /\ documents' = documents (+) u.records
           /\ bucket' = bucket (+) u.blobs
           /\ ingest_log' = u.log
           /\ session_state' =
                  IF run /\ outcome # "model_raised"
                  THEN [u.state EXCEPT !["history"] = Append(@, entry)]
                  ELSE u.state
           /\ queries' =
                  IF run /\ outcome = "returned"
                  THEN queries (+) SetToBag({[owner |-> uid, question |-> question,
                                              answer |-> "answer_text"]})
                  ELSE queries
           /\ last_run' = Run(TRUE, "Search", "", "",
                              u.ops \cup (IF run THEN {"model"} ELSE {})
                                    \cup (IF run /\ outcome # "model_raised"
                                          THEN {"queries.add"} ELSE {}),
                              u.messages \cup (IF run /\ outcome = "model_raised"
                                               THEN {"Error"} ELSE {}))
    /\ UNCHANGED <<script, accounts, users, summaries, uploader>>
    /\ UNCHANGED <<retryVars, calcVars, appVars, reader, orch>>

\* Either script, started in a fresh browser session.
InitBoth ==
    /\ script \in {"Btax.py", "DocumentR.py"}
    /\ accounts = <<>>
    /\ users = <<>>
    /\ session_state = <<>>
    /\ last_run = Run(FALSE, "open", "", "", {}, {})
    /\ documents = EmptyBag /\ summaries = EmptyBag /\ queries = EmptyBag
    /\ bucket = EmptyBag
    /\ uploader = <<>>
    /\ ingest_log = <<>>
    /\ business_data = <<>> /\ expenses = EmptyBag /\ assets = EmptyBag
    /\ page_view = BlankView("Login")
    \* no second session; the calculators, process_with_retry and the
    \* summary / query functions are not run on their own
    /\ reader = IdleReader /\ orch = IdleOrch
    /\ max_retries = 1 /\ attempt = 0 /\ pwr_pc = "idle" /\ func_calls = <<>>
    /\ sleeps = <<>> /\ fallback_calls = <<>> /\ warnings = 0
    /\ pwr_return = None /\ pwr_raised = None
    /\ taxable_income = 0
    /\ asset_row = [purchase_cost |-> 0, expected_life |-> 1, purchase_date |-> 0]
    /\ sb_result = [tax_amount |-> 0, tax_rate |-> 0, line |-> 0]
    /\ std_result = [tax_amount |-> 0, tax_rate |-> 0, line |-> 0]
    /\ dep_result = [den |-> 0, annual_depreciation |-> 0,
                     accumulated_depreciation |-> 0, current_value |-> 0]

NextDoc ==
    \/ \E e \in {Alice, Bob}, p \in Passwords : DocLogin(e, p)
    \/ \E e \in {Alice, Bob} : DocSignUp(e, "secret", "org")
    \/ DocLogout
    \/ \E files \in Selections : \E fail \in Fails(files) : DocSelectFiles(files, fail)
    \/ \E o \in AnalysisOutcomes : \E fail \in Fails(uploader) : DocGenerateSummary(fail, o)
    \/ \E o \in AnalysisOutcomes : \E fail \in Fails(uploader) : DocSearch("question", fail, o)

(***************************************************************************)
(* Specifications: one per component; the other components stay idle.      *)
(***************************************************************************)
SpecRetry == InitRetry /\ [][NextRetry]_vars
\* The wrapped call, the sleep and the fallback model each come to an end, so
\* a call of process_with_retry that can take a step takes one.
SpecRetryLive == InitRetryAny /\ [][NextRetryAny]_vars /\ WF_vars(NextRetryAny)
SpecCalc  == InitCalc /\ [][NextCalc]_vars
SpecApp   == InitApp /\ [][NextApp]_vars
SpecOrch  == InitOrch /\ [][NextOrch]_vars
SpecReader == InitReader /\ [][NextReader]_vars
SpecDoc   == InitDoc /\ [][NextDoc]_vars
SpecBoth  == InitBoth /\ [][NextApp \/ NextDoc]_vars

(***************************************************************************)
(* Properties of process_with_retry, checked under SpecRetry.              *)
(***************************************************************************)
RateLimited(o) == o.kind = "raise" /\ Contains(<<"4", "2", "9">>, o.msg)
OtherFailure(o) == o.kind = "raise" /\ ~Contains(<<"4", "2", "9">>, o.msg)
LastCall == func_calls[Len(func_calls)]

\* C1: when the wrapped call fails with a rate-limit error on attempts 1..k-1
\* and succeeds on attempt k (any k from 1 to max_retries), process_with_retry
\* returns the success value of the wrapped call and never invokes the fallback.
C1_SuccessAfterRateLimits ==
    ( /\ func_calls # <<>>
      /\ LastCall.kind = "return"
      /\ \A i \in 1..(Len(func_calls) - 1) : RateLimited(func_calls[i]) )
    => ( /\ pwr_pc = "returned"
         /\ pwr_return = LastCall.value
         /\ pwr_return \in PrimaryValues
         /\ fallback_calls = <<>>
         /\ warnings = 0
         /\ Len(func_calls) <= max_retries )

C1_Witness ==
    /\ max_retries = 3
    /\ Len(func_calls) = 3
    /\ RateLimited(func_calls[1]) /\ RateLimited(func_calls[2])
    /\ func_calls[3].kind = "return"
    /\ pwr_pc = "returned"

\* C2: when all max_retries attempts of the wrapped call fail, the fallback
\* model is invoked exactly once and its generated text is the return value.
C2_ExhaustionFallsBackOnce ==
    ( /\ Len(func_calls) = max_retries
      /\ \A i \in 1..Len(func_calls) : func_calls[i].kind = "raise" )
    => ( /\ Len(fallback_calls) = 1
         /\ pwr_pc = "returned"
         /\ pwr_return = fallback_calls[1].generated_text
         /\ pwr_return \in FallbackTexts )

C2_Witness ==
    /\ max_retries = 3
    /\ Len(func_calls) = 3
    /\ \A i \in 1..3 : func_calls[i].kind = "raise"
    /\ Len(fallback_calls) = 1

\* C3 as stated: every failure of the wrapped call that is not a rate-limit
\* signal, on whichever attempt, is delegated to the fallback model, whose
\* output is returned.
C3_OtherFailureAlwaysFallsBack ==
    \A i \in 1..Len(func_calls) :
        OtherFailure(func_calls[i])
        => ( /\ pwr_pc = "returned"
             /\ Len(fallback_calls) = 1
             /\ pwr_return = fallback_calls[1].generated_text )

\* C3 amended: a failure that is not a rate-limit signal is delegated to the
\* fallback model, whose output is returned, exactly when it occurs on the
\* final attempt; on an earlier attempt the fallback is not invoked.
C3_OtherFailureFallsBackOnFinalAttempt ==
    \A i \in 1..Len(func_calls) :
        OtherFailure(func_calls[i])
        => IF i = max_retries
           THEN /\ pwr_pc = "returned"
                /\ Len(fallback_calls) = 1
                /\ fallback_calls[1].max_length = 100
                /\ pwr_return = fallback_calls[1].generated_text
           ELSE /\ fallback_calls = <<>>
                /\ pwr_return = None

C3_Witness ==
    /\ max_retries = 3
    /\ Len(func_calls) = 3
    /\ OtherFailure(func_calls[3])
    /\ pwr_pc = "returned"
    /\ Len(fallback_calls) = 1

\* C4 as stated: an exception that is not a rate-limit signal is re-raised to
\* the caller, and only after the last of the max_retries attempts.
C4_OtherFailureReraisedAfterExhaustion ==
    \A i \in 1..Len(func_calls) :
        OtherFailure(func_calls[i])
        => ( /\ pwr_pc = "raised"
             /\ pwr_raised = func_calls[i].msg
             /\ Len(func_calls) = max_retries )

\* C4 amended: an exception that is not a rate-limit signal is re-raised to
\* the caller exactly when it occurs before the final attempt, and at once:
\* no sleep, no further attempt and no fallback follow it.  Nothing is raised
\* after the last attempt.
C4_OtherFailureReraisedBeforeExhaustion ==
    /\ \A i \in 1..Len(func_calls) :
           (OtherFailure(func_calls[i]) /\ i < max_retries)
           => ( /\ pwr_pc = "raised"
                /\ pwr_raised = func_calls[i].msg
                /\ i = Len(func_calls)
                /\ Len(sleeps) = i - 1 )
    /\ pwr_pc = "raised"
           => ( /\ Len(func_calls) < max_retries
                /\ OtherFailure(LastCall)
                /\ warnings = 0 )

C4_Witness ==
    /\ max_retries = 3
    /\ Len(func_calls) = 2
    /\ RateLimited(func_calls[1])
    /\ OtherFailure(func_calls[2])
    /\ pwr_pc = "raised"

\* C5: after a rate-limited failure on a non-final attempt a (from 0) the
\* thread sleeps 2^a seconds plus a jitter in [0, 1), so the delays strictly
\* increase with whole-second parts 1, 2, 4, ...; there is no sleep after the
\* final attempt and none after a success.
C5_ExponentialBackoff ==
    /\ \A i \in 1..Len(sleeps) :
           /\ Pow2(i - 1) * JitterRes <= sleeps[i]
           /\ sleeps[i] < (Pow2(i - 1) + 1) * JitterRes
           /\ RateLimited(func_calls[i])
    /\ \A i \in 1..Len(sleeps), j \in 1..Len(sleeps) : i < j => sleeps[i] < sleeps[j]
    /\ Len(sleeps) = Cardinality({ i \in 1..Len(func_calls) :
                                      RateLimited(func_calls[i]) /\ i < max_retries })
    /\ Len(sleeps) <= max_retries - 1
    /\ pwr_pc # "loop" => Len(sleeps) = Len(func_calls) - 1

C5_Witness ==
    /\ Len(sleeps) = 2
    /\ sleeps[1] \div JitterRes = 1
    /\ sleeps[2] \div JitterRes = 2
    /\ pwr_pc = "returned"
    /\ Len(func_calls) = 3

\* C21 (bounds): for max_retries >= 1 the wrapped call is invoked at most
\* max_retries times, there are at most max_retries - 1 sleeps and at most one
\* fallback, the call never falls out of the loop returning nothing, a
\* returned value is the primary result or the fallback text, and a raised
\* exception is that of the wrapped call.
C21_Bounded ==
    max_retries >= 1
    => /\ Len(func_calls) <= max_retries
       /\ Len(sleeps) <= max_retries - 1
       /\ Len(fallback_calls) <= 1
       /\ pwr_pc # "fell_through"
       /\ pwr_pc = "returned" => pwr_return \in PrimaryValues \cup FallbackTexts
       /\ pwr_pc = "raised" => pwr_raised \in Messages

C21_Ended == max_retries >= 1 => pwr_pc \in {"returned", "raised"}

\* C21: process_with_retry always terminates: for every max_retries >= 1 and
\* every pattern of successes and failures of the wrapped call the bounds
\* above hold throughout, and the call ends by returning a value or by
\* raising.  Checked under SpecRetryLive.
C21_AlwaysTerminates == []C21_Bounded /\ <>[]C21_Ended

\* the longest run: every attempt but the last rate-limited and slept on, the
\* last one failing into the fallback
C21_Witness ==
    /\ max_retries = MaxRetriesBound
    /\ Len(func_calls) = max_retries
    /\ Len(sleeps) = max_retries - 1
    /\ Len(fallback_calls) = 1
    /\ pwr_pc = "returned"
    /\ pwr_return \in FallbackTexts

(***************************************************************************)
(* Properties of the calculators, checked under SpecCalc.                  *)
(***************************************************************************)

\* The bracket table as the specification states it (cents, percent, cents).
C6_StatedTable ==
    { <<0,        9125000,  0,  0>>,
      <<9125100,  36500000, 7,  0>>,
      <<36500100, 55000000, 21, 1916250>>,
      <<55000100, Inf,      28, 5803750>> }

\* C6: the small-business tax is base_tax + (income - range_min + 1) * rate of
\* the stated bracket whose inclusive bounds contain the income; it is 0 for
\* every income up to 91,250, 0.07 at 91,251 and 72,037.50 at 600,000.
C6_SmallBusinessFormula ==
    sb_result.line # 0
    => /\ \A r \in C6_StatedTable :
              (r[1] <= taxable_income /\ taxable_income <= r[2])
              => sb_result.tax_amount = r[4] * 100 + (taxable_income - r[1] + 100) * r[3]
       /\ taxable_income <= 9125000 => sb_result.tax_amount = 0
       /\ taxable_income = 9125100 => sb_result.tax_amount = 700
       /\ taxable_income = 60000000 => sb_result.tax_amount = 720375000

C6_Witness ==
    /\ taxable_income = 60000000
    /\ sb_result.line = 49
    /\ sb_result.tax_amount = 720375000

\* C9 as stated: on both paths the returned rate is the effective rate of the
\* returned tax, tax_amount = rate * income for every taxable income > 0.
C9_RateIsEffectiveRate ==
    taxable_income > 0
    => /\ std_result.line # 0 => std_result.tax_amount = std_result.tax_rate * taxable_income
       /\ sb_result.line # 0 => sb_result.tax_amount = sb_result.tax_rate * taxable_income

\* C9 amended: on the standard path the returned rate is the effective rate
\* (tax_amount = 0.27 * income); on the small-business path the returned rate
\* is the marginal rate of the bracket that contains the income (0 when no
\* bracket does), so that tax_amount = rate * income only where the rate is 0
\* and tax_amount < rate * income in the 7%, 21% and 28% brackets.
C9_RateIsMarginalRate ==
    taxable_income > 0
    => /\ std_result.line # 0
              => /\ std_result.tax_rate = 27
                 /\ std_result.tax_amount = std_result.tax_rate * taxable_income
       /\ sb_result.line # 0
              => /\ \A r \in C6_StatedTable :
                        (r[1] <= taxable_income /\ taxable_income <= r[2])
                        => sb_result.tax_rate = r[3]
                 /\ (\A r \in C6_StatedTable :
                        ~(r[1] <= taxable_income /\ taxable_income <= r[2]))
                        => sb_result.tax_rate = 0
                 /\ IF sb_result.tax_rate = 0
                    THEN sb_result.tax_amount = sb_result.tax_rate * taxable_income
                    ELSE sb_result.tax_amount < sb_result.tax_rate * taxable_income

C9_Witness ==
    /\ taxable_income = 60000000
    /\ std_result.line = 35
    /\ sb_result.line = 49
    /\ sb_result.tax_rate = 28
    /\ sb_result.tax_amount < sb_result.tax_rate * taxable_income

\* C10: annual depreciation = c / L, accumulated = min(y * annual, c) and
\* current value = max(c - accumulated, 0), with y the years owned (days / 365);
\* c = 10,000, L = 5, y = 2 gives 2,000, 4,000 and 6,000.
C10_StraightLineDepreciation ==
    dep_result.den # 0
    => LET c    == asset_row.purchase_cost
           L    == asset_row.expected_life
           days == Today - asset_row.purchase_date
           d    == dep_result.den
       IN  /\ d = 365 * L
           /\ dep_result.annual_depreciation * L = c * d
           /\ IF days * c <= c * d                       \* y * annual <= c
              THEN /\ dep_result.accumulated_depreciation = days * c
                   /\ dep_result.current_value = c * d - days * c
              ELSE /\ dep_result.accumulated_depreciation = c * d
                   /\ dep_result.current_value = 0
           /\ (c = 1000000 /\ L = 5 /\ days = 730)
              => /\ dep_result.annual_depreciation = 200000 * d
                 /\ dep_result.accumulated_depreciation = 400000 * d
                 /\ dep_result.current_value = 600000 * d

C10_Witness ==
    /\ asset_row.purchase_cost = 1000000
    /\ asset_row.expected_life = 5
    /\ Today - asset_row.purchase_date = 730
    /\ dep_result.den = 1825
    /\ dep_result.current_value = 600000 * 1825

\* C11: for every asset with purchase cost >= 0 and expected life >= 1 and for
\* every number of years owned >= 0, the accumulated depreciation never
\* exceeds the purchase cost and the current value is never negative.
C11_DepreciationBounds ==
    ( /\ dep_result.den # 0
      /\ asset_row.purchase_cost >= 0
      /\ asset_row.expected_life >= 1
      /\ Today - asset_row.purchase_date >= 0 )
    => /\ dep_result.accumulated_depreciation <= asset_row.purchase_cost * dep_result.den
       /\ dep_result.current_value >= 0

\* an asset owned for longer than its expected life: the cap is what bounds it
C11_Witness ==
    /\ dep_result.den # 0
    /\ asset_row.purchase_cost = 99999
    /\ asset_row.expected_life = 2
    /\ Today - asset_row.purchase_date > 2 * DaysPerYear
    /\ dep_result.accumulated_depreciation = 99999 * dep_result.den
    /\ dep_result.current_value = 0

\* the formula of bracket k applied to an income x, whether or not x lies in
\* the bracket: base_tax + (x - min_income + 1) * rate, in 1/10000 rand
C20_Formula(k, x) ==
    tax_brackets[k].base_tax * 100 + (x - tax_brackets[k].min_income + OneRand) * tax_brackets[k].rate

\* C20: the base tax of every bracket after the first equals the tax the
\* formula yields at the upper bound of the preceding bracket, so the tax
\* computed at the lower bound of a bracket exceeds the tax computed at the
\* upper bound of the preceding bracket by exactly one unit at the marginal
\* rate.
C20_CumulativeBases ==
    \A k \in 2..Len(tax_brackets) :
        (sb_result.line # 0 /\ taxable_income = tax_brackets[k].min_income)
        => /\ tax_brackets[k].base_tax * 100
                  = C20_Formula(k - 1, tax_brackets[k - 1].max_income)
           /\ sb_result.tax_amount
                  = calculate_small_business_tax(tax_brackets[k - 1].max_income).tax_amount
                        + OneRand * tax_brackets[k].rate


(***************************************************************************)
(* Properties of the tax pages, checked under SpecApp.                     *)
(***************************************************************************)
TaxPages == {"Tax Calculator", "Tax Summary"}

\* C7: for every non-negative taxable income the application can produce,
\* exactly one bracket contains the income, so calculate_small_business_tax
\* never takes its final `return 0, 0`.
C7_NoFallThrough ==
    (page_view.page \in TaxPages /\ dict_get(business_data, "business_type", None) = SBC)
    => /\ page_view.line # 50
       /\ Cardinality({ r \in C6_StatedTable :
                           r[1] <= page_view.taxable_income
                           /\ page_view.taxable_income <= r[2] }) = 1

\* C8: for every business type other than "Small Business Corporation",
\* an unset type included, the Tax Calculator page and the Tax Summary report
\* compute tax_amount = income * 0.27 with rate 0.27; only the type
\* "Small Business Corporation" selects the bracket table.
C8_StandardPath ==
    page_view.page \in TaxPages
    => IF dict_get(business_data, "business_type", None) = SBC
       THEN page_view.line \in {49, 50}
       ELSE /\ page_view.line = 35
            /\ page_view.tax_rate = 27
            /\ page_view.tax_amount = 27 * page_view.taxable_income

C8_Witness ==
    /\ page_view.page = "Tax Summary"
    /\ "business_type" \notin DOMAIN business_data
    /\ page_view.taxable_income > 9125000
    /\ page_view.tax_amount = 27 * page_view.taxable_income

GateOps == {"auth.get_user_by_email", "auth.create_user", "businesses.set", "users.set"}

\* C14: the session user is set only when the submitted email and password
\* are accepted by the identity service; a login with the email of an account
\* and a wrong password does not establish a session and shows the generic
\* login error.
C14_PasswordChecked ==
    last_run.interaction = "Login"
    => /\ logged_in => /\ last_run.email \in DOMAIN accounts
                       /\ accounts[last_run.email] = last_run.password
       /\ (last_run.email \in DOMAIN accounts /\ accounts[last_run.email] # last_run.password)
          => /\ ~logged_in
             /\ "Login failed" \in last_run.messages

\* what an execution that began without a user has done, and how a session
\* can come to hold a user
C15_GateState ==
    /\ ~last_run.had_user
       => /\ last_run.interaction \in {"open", "Login", "Sign Up"}
          /\ last_run.ops \subseteq GateOps
          /\ (last_run.ops \cap {"businesses.set", "users.set"} # {})
             => /\ last_run.interaction = "Sign Up"
                /\ "Account created! Please login." \in last_run.messages
          /\ logged_in => /\ last_run.interaction = "Login"
                          /\ "Logged in successfully!" \in last_run.messages
    /\ last_run.interaction = "Sign Up" => ~logged_in
    /\ last_run.interaction = "Logout" => ~logged_in
    /\ ~logged_in => page_view.page \notin TaxPages

\* what an execution that begins without a user leaves alone
C15_GateStep ==
    ~logged_in
    => /\ UNCHANGED <<expenses, assets, documents, summaries, queries, bucket>>
       /\ session_state' # session_state => last_run'.interaction = "Login"
       /\ <<business_data, users>>' # <<business_data, users>>
          => /\ last_run'.interaction = "Sign Up"
             /\ last_run'.email \notin DOMAIN accounts
       /\ ingest_log' = <<>>

\* C15: in both applications an execution of main that begins without a
\* session user runs only the login and sign-up forms and reads or writes no
\* business or user record, expense, asset, document, summary or query, other
\* than the profile a successful sign-up creates; a sign-up never sets the
\* session user; after Logout the session holds no user until a later
\* successful login.
C15_AuthGate == []C15_GateState /\ [][C15_GateStep]_vars

\* logged out again after a session with records, and the tax page not shown
C15_Witness ==
    /\ last_run.interaction = "Logout"
    /\ ~logged_in
    /\ accounts # <<>>
    /\ (script = "Btax.py" /\ expenses # EmptyBag) \/ (script = "DocumentR.py" /\ documents # EmptyBag)

(***************************************************************************)
(* Properties of the document application, checked under SpecDoc.          *)
(***************************************************************************)
history == dict_get(session_state, "history", <<>>)
uploaded_documents == dict_get(session_state, "uploaded_documents", <<>>)
combined_document_text == dict_get(session_state, "combined_document_text", <<>>)

\* C16: the conversation history and the uploaded documents and chunks that
\* the logged-in user sees and queries contain only entries produced while
\* that same user was logged in, also after one user logged out and another
\* logged in.
C16_SessionStatePerUser ==
    (logged_in /\ last_run.had_user)
    => LET uid == session_state["user"].localId
       IN  /\ \A i \in 1..Len(history) : history[i].by = uid
           /\ \A i \in 1..Len(uploaded_documents) : uploaded_documents[i].by = uid

\* positions of the upload loop of the last execution at which a step failed
FailedAt(outcomes) ==
    { ingest_log[i].pos : i \in { j \in 1..Len(ingest_log) : ingest_log[j].outcome \in outcomes } }

\* the files at positions 1..m are fully processed, in order
FullyProcessed(m) ==
    /\ Len(uploaded_documents) >= m
    /\ \A i \in 1..m :
          /\ uploaded_documents[i].file = uploader[i]
          /\ uploaded_documents[i].text_chunks = chunk_text(extract_text_from_file(uploader[i]))
          /\ \E d \in DOMAIN documents :
                /\ d.owner = session_state["user"].localId
                /\ d.filename = uploader[i].name
                /\ d.chunk_count = Len(uploaded_documents[i].text_chunks)
          /\ \A st \in 1..Len(Steps) :
                \E j \in 1..Len(ingest_log) :
                    /\ ingest_log[j].pos = i
                    /\ ingest_log[j].step = Steps[st]
                    /\ ingest_log[j].outcome # "raised"
    /\ SubSeq(combined_document_text, 1,
              Len(Flatten([ i \in 1..m |-> uploaded_documents[i].text_chunks ])))
           = Flatten([ i \in 1..m |-> uploaded_documents[i].text_chunks ])

\* the steps of the loop were logged in the order of the files and of the code
InOrder ==
    \A i \in 1..Len(ingest_log), j \in 1..Len(ingest_log) :
        i < j => \/ ingest_log[i].pos < ingest_log[j].pos
                 \/ /\ ingest_log[i].pos = ingest_log[j].pos
                    /\ StepIndex(ingest_log[i].step) < StepIndex(ingest_log[j].step)

\* C17 as stated: the files are processed in order; when a step of file k
\* fails, whichever step it is, every file before k is fully processed, no
\* file after k is attempted and nothing done so far is undone.
C17_AnyFailureStopsLoop ==
    (logged_in /\ ingest_log # <<>>)
    => /\ InOrder
       /\ \A k \in FailedAt({"error", "raised"}) :
             /\ FullyProcessed(k - 1)
             /\ \A j \in 1..Len(ingest_log) : ingest_log[j].pos <= k

\* C17 amended: the files are processed in order; when a step of file k other
\* than the storage upload raises (text extraction, chunking, thumbnail,
\* saving the document record), every file before k is fully processed, no
\* file after k is attempted and nothing done so far is undone; a failed
\* storage upload only shows an error, the file is processed with file_url
\* None and the loop goes on.
C17_RaisingFailureStopsLoop ==
    (logged_in /\ ingest_log # <<>>)
    => /\ InOrder
       /\ \A k \in FailedAt({"raised"}) :
             /\ FullyProcessed(k - 1)
             /\ Len(uploaded_documents) = k - 1
             /\ \A j \in 1..Len(ingest_log) : ingest_log[j].pos <= k
             /\ "Uncaught exception" \in last_run.messages
       /\ FailedAt({"raised"}) = {} => FullyProcessed(Len(uploader))
       /\ \A k \in FailedAt({"error"}) :
             /\ "Error uploading file" \in last_run.messages
             /\ \E j \in 1..Len(ingest_log) :
                   ingest_log[j].pos = k /\ ingest_log[j].step = "extract_text_from_file"
             /\ k \notin FailedAt({"raised"})
                => \E d \in DOMAIN documents :
                       d.filename = uploader[k].name /\ d.file_url = None

\* the second of two files fails when its record is saved: the first stays
C17_Witness ==
    /\ logged_in
    /\ Len(uploader) = 2
    /\ FailedAt({"raised"}) = {2}
    /\ \E j \in 1..Len(ingest_log) :
          ingest_log[j].step = "documents.add" /\ ingest_log[j].outcome = "raised"
    /\ Len(uploaded_documents) = 1
    /\ BagCardinality(documents) >= 1

\* the chunks of the selected files, in the order of the selection
SelectedChunks ==
    Flatten([i \in 1..Len(uploader) |-> chunk_text(extract_text_from_file(uploader[i]))])

\* an execution of main for Generate Summary or Search made while the same
\* files stay selected, whose upload loop ran to its end
C22_ReExecution ==
    /\ logged_in /\ logged_in'
    /\ uploader # <<>>
    /\ uploader' = uploader
    /\ last_run'.interaction \in {"Generate Summary", "Search"}
    /\ "Uncaught exception" \notin last_run.messages
    /\ "Uncaught exception" \notin last_run'.messages

C22_TextStep ==
    C22_ReExecution => combined_document_text' = SelectedChunks

C22_IngestStep ==
    C22_ReExecution
    => /\ documents' = documents
       /\ bucket' = bucket
       /\ "documents.add" \notin last_run'.ops
       /\ "storage.upload" \notin last_run'.ops
       /\ combined_document_text' = SelectedChunks

\* the part of C22 about the session: combined_document_text stays equal to
\* the in-order concatenation of the chunks of the selected files
C22_TextStaysEqual == [][C22_TextStep]_vars

\* C22: ingestion is idempotent under re-execution: an interaction (Generate
\* Summary, Search) made while the same files stay selected adds no document
\* record and makes no storage upload, so each selected file keeps exactly one
\* record and one upload, and combined_document_text stays equal to the
\* in-order concatenation of the chunks of the selected files.
C22_IngestionIdempotent == [][C22_IngestStep]_vars

(***************************************************************************)
(* Failures of external services in either application, checked under      *)
(* SpecBoth.                                                               *)
(***************************************************************************)
UploadErrors == {"Error uploading document", "Error uploading file"}

\* C19 as stated: when the storage upload fails during add-expense, add-asset
\* or file ingestion, or a model call raises during summarize or query, an
\* error is shown and the execution writes nothing: no expense, asset,
\* document, summary or query record is added and the history is unchanged.
C19_FailureStep ==
    (last_run'.messages \cap (UploadErrors \cup {"Error"}) # {})
    => /\ UNCHANGED <<expenses, assets, documents, summaries, queries>>
       /\ history' = history

C19_FailureWritesNothing == [][C19_FailureStep]_vars

\* the steps of C19 amended
C19_AmendedStep ==
    /\ "Error" \in last_run'.messages
       => /\ last_run'.interaction \in {"Generate Summary", "Search"}
          /\ UNCHANGED <<summaries, queries>>
          /\ history' = history
    /\ "Error uploading document" \in last_run'.messages
       => /\ last_run'.interaction \in {"Add Expense", "Add Asset"}
          /\ last_run'.interaction = "Add Expense"
             => \E x \in DOMAIN expenses' :
                   /\ x.document_url = None
                   /\ expenses' = expenses (+) SetToBag({x})
          /\ last_run'.interaction = "Add Asset"
             => \E x \in DOMAIN assets' :
                   /\ x.document_url = None
                   /\ assets' = assets (+) SetToBag({x})
    /\ "Error uploading file" \in last_run'.messages
       => /\ BagCardinality(documents') = BagCardinality(documents) + Len(uploaded_documents')
          /\ \A i \in 1..Len(uploaded_documents') :
                \E d \in DOMAIN documents' :
                    /\ d.filename = uploaded_documents'[i].file.name
                    /\ d.file_url = None
                    /\ CopiesIn(d, documents') > CopiesIn(d, documents)

\* C19 amended: a model call that raises during summarize or query aborts the
\* operation: an error is shown, no summary or query record is added and the
\* history is unchanged.  A storage upload that fails during add-expense,
\* add-asset or file ingestion also shows an error, but the operation goes
\* on and writes the expense, asset or document record, with the document
\* URL None.
C19_ModelFailureAborts == [][C19_AmendedStep]_vars

\* an expense recorded although its upload failed
C19_Witness ==
    /\ last_run.interaction = "Add Expense"
    /\ "Error uploading document" \in last_run.messages
    /\ "Expense recorded successfully!" \in last_run.messages
    /\ \E x \in DOMAIN expenses : x.document_url = None

(***************************************************************************)
(* The tax figures under concurrent writes, checked under SpecReader.      *)
(***************************************************************************)
\* the figures of the reader's page computed from one state of the records
FiguresOf(st) ==
    IF reader.page = "Tax Calculator"
    THEN tax_calculator(st.business_data, st.expenses, st.assets)
    ELSE tax_summary(st.business_data, st.expenses, st.assets)

\* C13 as stated: every figure of one computed summary derives from one and
\* the same state of the profile, expense and asset records, also when
\* another session writes for the same business between the summary's reads.
C13_OneStateOfRecords ==
    reader.pc = "done"
    => \E i \in 1..Len(reader.seen) : reader.view = FiguresOf(reader.seen[i])

\* C13 amended: nothing is cached, each figure derives from the records as
\* they were when its own read took place: revenue and business type from the
\* profile read, expenses and deductions from the expenses read, depreciation
\* from the assets read.  The figures derive from one state of the records
\* when no other session writes between the three reads.
C13_EachFigureFromItsRead ==
    reader.pc = "done"
    => /\ Len(reader.seen) = 3
       /\ reader.view = FiguresOf([business_data |-> reader.seen[1].business_data,
                                   expenses      |-> reader.seen[2].expenses,
                                   assets        |-> reader.seen[3].assets])
       /\ reader.view.total_revenue = FiguresOf(reader.seen[1]).total_revenue
       /\ reader.view.total_expenses = FiguresOf(reader.seen[2]).total_expenses
       /\ reader.view.deductions = FiguresOf(reader.seen[2]).deductions
       /\ reader.view.total_depreciation = FiguresOf(reader.seen[3]).total_depreciation
       /\ (reader.seen[1] = reader.seen[2] /\ reader.seen[2] = reader.seen[3])
             => reader.view = FiguresOf(reader.seen[1])

\* a summary whose three reads saw three different states of the records
C13_Witness ==
    /\ reader.pc = "done"
    /\ reader.page = "Tax Summary"
    /\ reader.seen[1] # reader.seen[2]
    /\ reader.seen[2] # reader.seen[3]
    /\ \A i \in 1..3 : reader.view # FiguresOf(reader.seen[i])

(***************************************************************************)
(* Properties of generate_document_summary and query_documents, checked    *)
(* under SpecOrch.                                                         *)
(***************************************************************************)
PerChunkChain == IF orch.fn = "generate_document_summary"
                 THEN "summary_chain" ELSE "question_chain"
CombiningChain == IF orch.fn = "generate_document_summary"
                  THEN "final_summary_chain" ELSE "combined_answer_chain"
ChunkOf(call) == IF orch.fn = "generate_document_summary"
                 THEN call.input.doc_chunk ELSE call.input.chunk
CombinedOf(call) == IF orch.fn = "generate_document_summary"
                    THEN call.input.combined_summary ELSE call.input.answers

\* C18: over n chunks, call i of process_with_retry (i <= n) is the per-chunk
\* call on chunk i, a call is made only when every call before it has
\* returned, result i is the value of call i, and a completed run has made
\* exactly n + 1 calls, the last one the combining call on the results
\* joined in chunk order.  The wrapped chain is invoked only inside a run of
\* process_with_retry that one of these calls has entered.
C18_ChunksInOrderThenCombine ==
    LET n == Len(orch.document_chunks)
        k == Len(orch.calls)
    IN  /\ k <= n + 1
        /\ Len(orch.results) <= n
        /\ \A i \in 1..IF k <= n THEN k ELSE n :
              /\ orch.calls[i].chain = PerChunkChain
              /\ ChunkOf(orch.calls[i]) = orch.document_chunks[i]
        /\ \A i \in 1..Len(orch.results) : orch.results[i] = orch.calls[i].value
        /\ \A i \in 1..k : orch.calls[i].value = None => i = k
        /\ pwr_pc # "idle" =>
              /\ orch.pc \in {"calling", "combining"}
              /\ k = Len(orch.results) + 1
              /\ orch.calls[k].value = None
        /\ func_calls # <<>> => k >= 1
        /\ k = n + 1 =>
              /\ Len(orch.results) = n
              /\ orch.calls[k].chain = CombiningChain
              /\ CombinedOf(orch.calls[k]) = Join(orch.results)
        /\ orch.pc = "done" =>
              /\ k = n + 1
              /\ orch.value = orch.calls[k].value
              /\ orch.value # None

\* a completed run over two chunks whose two results differ
C18_Witness ==
    /\ orch.pc = "done"
    /\ Len(orch.document_chunks) = 2
    /\ Len(orch.calls) = 3
    /\ orch.results[1] # orch.results[2]

====
